---- MODULE Spec2Model ----
(***************************************************************************)
(* A model of qsh.QshFile, the streaming decoder of QScalp History (QSH)   *)
(* files: the byte source, the primitive and delta codecs, the container   *)
(* parser and the ord-log decoder with its order-book reconstruction.      *)
(*                                                                         *)
(* Conventions.  A byte string is a sequence over 0..255.  The file object *)
(* is modelled by its unread remainder (self.fileobj): a read takes bytes  *)
(* off its front.  Every reader is an operator from the unread bytes to a  *)
(* result [exc, val, rest]: the exception raised ("none" if it returned),  *)
(* the value returned and the bytes left unread.  Python's None is <<>>    *)
(* and a present optional value v is <<v>>.  A dict is a function whose    *)
(* DOMAIN is its key set; dict objects live in heap and the program holds  *)
(* references (indices into heap), so aliasing is visible.                 *)
(*                                                                         *)
(* With(v, F) is F(v) with v evaluated once: it stands for a Python local  *)
(* variable holding the value of an expression.                            *)
(***************************************************************************)
EXTENDS Integers, Sequences, FiniteSets, TLC

VARIABLES
    file,     \* the file opened: what gzip and a raw read yield, and its layout
    log,      \* SpecFile: the calls made so far, <<operation, exception>>
    self,     \* the QshFile object: attribute name -> value
    heap,     \* the dict objects allocated so far; a reference is an index
    py3,      \* TRUE: the interpreter is Python 3 (bytes # str); FALSE: Python 2
    exc,      \* the exception the last call raised, "none" if it returned
    ret,      \* what the last call returned, tagged with the operation
    calls,    \* number of calls made so far (bounds the run)
    held,     \* the snapshots handed to the caller: <<reference, contents then>>
    emitted,  \* the ids of the DealEntry values returned so far, in order
    fed       \* what the quotes and frame readers were given to read, in order

vars == <<file, log, self, heap, py3, exc, ret, calls, held, emitted, fed>>

----------------------------------------------------------------------------
(* Bounds of the model *)

MaxCalls == 3

----------------------------------------------------------------------------
(* Flags: OrdLogEntry.DataFlag, OrdLogEntry.ActionFlag, DealEntry.Type *)

DATETIME == 1
ORDER_ID == 2
ORDER_PRICE == 4
AMOUNT == 8
ORDER_AMOUNT_REST == 16
DEAL_ID == 32
DEAL_PRICE == 64
OI_AFTER_DEAL == 128

NON_ZERO_REPL_ACT == 1
FLOW_START == 2
ADD == 4
FILL == 8
BUY == 16
SELL == 32
NON_SYSTEM == 512
END_OF_TRANSACTION == 1024
CANCELED == 8192

TYPE_BUY == 1
TYPE_SELL == 2

With(v, F(_)) == CHOOSE y \in {F(x) : x \in {v}} : TRUE

RECURSIVE BitAnd(_, _)
BitAnd(a, b) ==
    IF a = 0 \/ b = 0 THEN 0
    ELSE (IF a % 2 = 1 /\ b % 2 = 1 THEN 1 ELSE 0) + 2 * BitAnd(a \div 2, b \div 2)

is_available(list_mask, item_mask) == BitAnd(list_mask, item_mask) # 0

----------------------------------------------------------------------------
(* Byte source and primitive codec *)

Raise(e, rest) == [exc |-> e, val |-> 0, rest |-> rest]
Return(v, rest) == [exc |-> "none", val |-> v, rest |-> rest]

\* fileobj.read(length): at most length bytes, fewer at the end of the file.
fileobj_read(f, length) ==
    LET n == IF length < Len(f) THEN length ELSE Len(f)
    IN  [val |-> SubSeq(f, 1, n), rest |-> SubSeq(f, n + 1, Len(f))]

\* result == '': a bytes object never equals a str in Python 3; in Python 2
\* bytes is str and the comparison holds for the empty result.
is_empty_str(result) == (~py3) /\ Len(result) = 0

read(f, length) ==
    With(fileobj_read(f, length), LAMBDA result :
        IF is_empty_str(result.val) THEN Raise("EOFError", result.rest)
        ELSE Return(result.val, result.rest))

RECURSIVE le_value(_)
le_value(bytes) ==
    IF Len(bytes) = 0 THEN 0 ELSE Head(bytes) + 256 * le_value(Tail(bytes))

\* The integer of little-endian bytes; one of 2^24 or more is beyond the
\* arithmetic here and is kept as its bytes (none is computed with).
Narrow(bytes) == \A i \in 4..Len(bytes) : bytes[i] = 0
le_integer(bytes) == IF Narrow(bytes) THEN le_value(bytes) ELSE bytes

\* struct.unpack(fmt, data) for an unsigned fmt of the given size (native order,
\* little-endian on the supported builds): struct.error unless len(data) = size.
unpack_unsigned(size, r) ==
    IF r.exc # "none" THEN r
    ELSE IF Len(r.val) # size THEN Raise("struct.error", r.rest)
    ELSE Return(le_integer(r.val), r.rest)

read_byte(f) == With(read(f, 1), LAMBDA r : unpack_unsigned(1, r))

read_uint16(f) == With(read(f, 2), LAMBDA r : unpack_unsigned(2, r))

RECURSIVE uleb128_loop(_, _, _)
uleb128_loop(f, result, shift) ==
    With(read_byte(f), LAMBDA b :
        IF b.exc # "none" THEN b
        ELSE With(result + (b.val % 128) * (2 ^ shift), LAMBDA r :  \* |= of disjoint bits
                 IF b.val \div 128 = 0 THEN Return(r, b.rest)
                 ELSE uleb128_loop(b.rest, r, shift + 7)))

read_uleb128(f) == uleb128_loop(f, 0, 0)

\* the loop of read_leb128 without the sign extension of lines 237-238
RECURSIVE leb128_loop_unsigned(_, _, _)
leb128_loop_unsigned(f, result, shift) ==
    With(read_byte(f), LAMBDA b :
        IF b.exc # "none" THEN b
        ELSE With(result + (b.val % 128) * (2 ^ shift), LAMBDA r :
                 IF b.val \div 128 = 0 THEN Return(r, b.rest)
                 ELSE leb128_loop_unsigned(b.rest, r, shift + 7)))

RECURSIVE leb128_loop(_, _, _)
leb128_loop(f, result, shift) ==
    With(read_byte(f), LAMBDA b :
        IF b.exc # "none" THEN b
        ELSE With(result + (b.val % 128) * (2 ^ shift), LAMBDA r :
                 IF b.val \div 128 = 0
                 THEN \* result |= -(1 << shift) when bit 0x40 of the last byte is set
                      Return(IF (b.val \div 64) % 2 = 1 THEN r - (2 ^ (shift + 7)) ELSE r,
                             b.rest)
                 ELSE leb128_loop(b.rest, r, shift + 7)))

read_leb128(f) == leb128_loop(f, 0, 0)

----------------------------------------------------------------------------
(* Delta codec *)

read_relative(f, last_value) ==
    With(read_leb128(f), LAMBDA offset :
        IF offset.exc # "none" THEN offset
        ELSE Return(last_value + offset.val, offset.rest))

GrowingEscape == 268435455

\* read_growing without the escape of lines 275-276
read_growing_plain(f, last_value) ==
    With(read_uleb128(f), LAMBDA offset :
        IF offset.exc # "none" THEN offset
        ELSE Return(last_value + offset.val, offset.rest))

read_growing(f, last_value) ==
    With(read_uleb128(f), LAMBDA offset :
        IF offset.exc # "none" THEN offset
        ELSE IF offset.val = GrowingEscape
        THEN With(read_leb128(offset.rest), LAMBDA o2 :
                 IF o2.exc # "none" THEN o2
                 ELSE Return(last_value + o2.val, o2.rest))
        ELSE Return(last_value + offset.val, offset.rest))

\* A datetime is kept as its count of microseconds since 0001-01-01 00:00:00
\* (the resolution of datetime.datetime); a millisecond value is a whole number
\* of milliseconds (creation times are drawn as whole milliseconds).
to_milliseconds(datetime_value) == datetime_value \div 1000
to_datetime(milliseconds_value) == milliseconds_value * 1000

\* datetime(1, 1, 1) + timedelta(milliseconds=...) leaves the range of datetime
\* for a negative count.
read_growing_datetime(f, last_value) ==
    With(read_growing(f, last_value), LAMBDA milliseconds :
        IF milliseconds.exc # "none" THEN milliseconds
        ELSE IF milliseconds.val < 0 THEN Raise("OverflowError", milliseconds.rest)
        ELSE Return(to_datetime(milliseconds.val), milliseconds.rest))

----------------------------------------------------------------------------
(* dict *)

EmptyDict == [k \in {} |-> 0]
DictGet(d, k, default) == IF k \in DOMAIN d THEN d[k] ELSE default
DictPop(d, k) == [x \in (DOMAIN d) \ {k} |-> d[x]]
DictSet(d, k, v) == [x \in (DOMAIN d) \cup {k} |-> IF x = k THEN v ELSE d[x]]

RECURSIVE DictSum(_, _)
DictSum(d, keys) ==
    IF keys = {} THEN 0
    ELSE With(CHOOSE x \in keys : TRUE, LAMBDA k : d[k] + DictSum(d, keys \ {k}))

----------------------------------------------------------------------------
(* Running a method body: st = [obj, exc, loc] is the object, the exception  *)
(* raised so far and the method's local variables.  A statement after a      *)
(* raise is not executed; a raise inside an assignment's right-hand side     *)
(* leaves the target unassigned.                                             *)

Enter(s, locals) == [obj |-> s, exc |-> "none", loc |-> locals]

Propagate(st, r) == [st EXCEPT !.obj.fileobj = r.rest, !.exc = r.exc]

\* self.<attr> = <read>
SetAttr(st, attr, read_result) ==
    With(read_result, LAMBDA r :
        IF r.exc # "none" THEN Propagate(st, r)
        ELSE [st EXCEPT !.obj.fileobj = r.rest, !.obj[attr] = r.val])

\* <local> = <read>
SetLocal(st, name, read_result) ==
    With(read_result, LAMBDA r :
        IF r.exc # "none" THEN Propagate(st, r)
        ELSE [st EXCEPT !.obj.fileobj = r.rest, !.loc[name] = r.val])

\* <local> = <expression without reads>
LetLocal(st, name, v) == [st EXCEPT !.loc[name] = v]

\* to_milliseconds(<read of a datetime>)
MsOf(read_result) ==
    With(read_result, LAMBDA r :
        IF r.exc # "none" THEN r ELSE Return(to_milliseconds(r.val), r.rest))

----------------------------------------------------------------------------
(* read_ord_log_data: the field reads (lines 320-372) *)

OrdLogLocals ==
    [availability_mask |-> 0, actions_mask |-> 0, is_add |-> FALSE, is_buy |-> FALSE,
     is_sell |-> FALSE, is_fill |-> FALSE, exchange_timestamp |-> 0,
     exchange_order_id |-> 0, amount_rest |-> 0, deal_id |-> 0, deal_price |-> 0,
     oi_after_deal |-> 0]

\* lines 323-325 and the test of line 346
ord_log_flags(st) ==
    [st EXCEPT !.loc.is_add  = is_available(st.loc.actions_mask, ADD),
               !.loc.is_buy  = is_available(st.loc.actions_mask, BUY),
               !.loc.is_sell = is_available(st.loc.actions_mask, SELL),
               !.loc.is_fill = is_available(st.loc.actions_mask, FILL)]

\* statement i of the method, run in st; f is the unread remainder
\* lines 332-338 with the last branch also storing the id it read
order_id_statement_storing(st) ==
    IF ~is_available(st.loc.availability_mask, ORDER_ID)
    THEN LetLocal(st, "exchange_order_id", st.obj.last_order_id)
    ELSE With(SetAttr(st, "last_order_id",
                  IF st.loc.is_add
                  THEN read_growing(st.obj.fileobj, st.obj.last_order_id)
                  ELSE read_relative(st.obj.fileobj, st.obj.last_order_id)),
              LAMBDA t : IF t.exc # "none" THEN t
                         ELSE LetLocal(t, "exchange_order_id", t.obj.last_order_id))

\* lines 332-338
order_id_statement(st) ==
    IF ~is_available(st.loc.availability_mask, ORDER_ID)
    THEN LetLocal(st, "exchange_order_id", st.obj.last_order_id)
    ELSE IF st.loc.is_add
    THEN With(SetAttr(st, "last_order_id",
                  read_growing(st.obj.fileobj, st.obj.last_order_id)),
              LAMBDA t : IF t.exc # "none" THEN t
                         ELSE LetLocal(t, "exchange_order_id", t.obj.last_order_id))
    ELSE SetLocal(st, "exchange_order_id",
             read_relative(st.obj.fileobj, st.obj.last_order_id))

ord_log_statement(i, st) ==
    LET f  == st.obj.fileobj
        av == st.loc.availability_mask
        is_add  == st.loc.is_add
        is_fill == st.loc.is_fill
    IN  CASE i = 1 -> SetLocal(st, "availability_mask", read_byte(f))
          [] i = 2 -> With(SetLocal(st, "actions_mask", read_uint16(f)),
                           LAMBDA t : IF t.exc # "none" THEN t ELSE ord_log_flags(t))
          [] i = 3 -> IF is_available(av, DATETIME)
                      THEN SetAttr(st, "last_exchange_milliseconds",
                               MsOf(read_growing_datetime(f,
                                        st.obj.last_exchange_milliseconds)))
                      ELSE st
          [] i = 4 -> LetLocal(st, "exchange_timestamp",
                               to_datetime(st.obj.last_exchange_milliseconds))
          [] i = 5 -> order_id_statement(st)
          [] i = 6 -> IF is_available(av, ORDER_PRICE)
                      THEN SetAttr(st, "last_order_price",
                               read_relative(f, st.obj.last_order_price))
                      ELSE st
          [] i = 7 -> IF is_available(av, AMOUNT)
                      THEN SetAttr(st, "last_amount", read_leb128(f))
                      ELSE st
          [] i = 8 -> IF is_fill /\ is_available(av, ORDER_AMOUNT_REST)
                      THEN SetAttr(st, "last_order_amount_rest", read_leb128(f))
                      ELSE st
          [] i = 9 -> LetLocal(st, "amount_rest",
                               IF is_fill THEN st.obj.last_order_amount_rest
                               ELSE IF is_add THEN st.obj.last_amount ELSE 0)
          [] i = 10 -> IF is_fill /\ is_available(av, DEAL_ID)
                       THEN SetAttr(st, "last_deal_id",
                                read_growing(f, st.obj.last_deal_id))
                       ELSE st
          [] i = 11 -> LetLocal(st, "deal_id",
                                IF is_fill THEN st.obj.last_deal_id ELSE 0)
          [] i = 12 -> IF is_fill /\ is_available(av, DEAL_PRICE)
                       THEN SetAttr(st, "last_deal_price",
                                read_relative(f, st.obj.last_deal_price))
                       ELSE st
          [] i = 13 -> LetLocal(st, "deal_price",
                                IF is_fill THEN st.obj.last_deal_price ELSE 0)
          [] i = 14 -> IF is_fill /\ is_available(av, OI_AFTER_DEAL)
                       THEN SetAttr(st, "last_oi_after_deal",
                                read_relative(f, st.obj.last_oi_after_deal))
                       ELSE st
          [] i = 15 -> LetLocal(st, "oi_after_deal",
                                IF is_fill THEN st.obj.last_oi_after_deal ELSE 0)

\* statements 1..n in order, stopping at the first raise
RECURSIVE ord_log_fields(_, _)
ord_log_fields(s, n) ==
    IF n = 0 THEN Enter(s, OrdLogLocals)
    ELSE With(ord_log_fields(s, n - 1), LAMBDA st :
             IF st.exc # "none" THEN st ELSE ord_log_statement(n, st))

----------------------------------------------------------------------------
(* read_ord_log_data: the order book and the derived entries (lines 372-412) *)

\* line 379
book_condition(loc) ==
    /\ loc.is_buy # loc.is_sell
    /\ ~is_available(loc.actions_mask, NON_SYSTEM)
    /\ ~is_available(loc.actions_mask, NON_ZERO_REPL_ACT)

\* b = [obj, heap, aux, deal]: the object, the dict objects, aux_info_entry, deal_entry

\* FLOW_START without the reset of line 377
flow_start_keeps_quotes(b) == b

\* FLOW_START that also resets the snapshot
flow_start_resets_snapshot(b) ==
    [b EXCEPT !.heap = Append(Append(b.heap, EmptyDict), EmptyDict),
              !.obj.quotes = Len(b.heap) + 1,
              !.obj.external_quotes = Len(b.heap) + 2]

\* self.quotes = {} on FLOW_START: a new dict object
flow_start(b) ==
    [b EXCEPT !.heap = Append(b.heap, EmptyDict), !.obj.quotes = Len(b.heap) + 1]

\* the quantity, the side deciding the sign whether the record adds or not
new_quantity_by_side(old, amount, loc) ==
    IF loc.is_sell THEN old + amount ELSE old - amount

\* the quantity after this record at its price (lines 381-386)
new_quantity(old, amount, loc) ==
    IF (IF loc.is_add THEN loc.is_sell ELSE loc.is_buy)
    THEN old + amount
    ELSE old - amount

\* the update without the removal of line 389: a quantity of 0 is stored
update_book_stores_zero(b, loc) ==
    LET price == b.obj.last_order_price
    IN  With(new_quantity(DictGet(b.heap[b.obj.quotes], price, 0),
                          b.obj.last_amount, loc),
             LAMBDA quantity :
                 [b EXCEPT !.heap[b.obj.quotes] = DictSet(@, price, quantity)])

\* the update that pops the price only at the end of a transaction
update_book_pops_at_end(b, loc) ==
    LET price == b.obj.last_order_price
    IN  With(new_quantity(DictGet(b.heap[b.obj.quotes], price, 0),
                          b.obj.last_amount, loc),
             LAMBDA quantity :
                 IF quantity = 0 /\ is_available(loc.actions_mask, END_OF_TRANSACTION)
                 THEN [b EXCEPT !.heap[b.obj.quotes] = DictPop(@, price)]
                 ELSE [b EXCEPT !.heap[b.obj.quotes] = DictSet(@, price, quantity)])

\* lines 381-391: the dict self.quotes refers to is updated in place
update_book(b, loc) ==
    LET price == b.obj.last_order_price
    IN  With(new_quantity(DictGet(b.heap[b.obj.quotes], price, 0),
                          b.obj.last_amount, loc),
             LAMBDA quantity :
                 IF quantity = 0
                 THEN [b EXCEPT !.heap[b.obj.quotes] = DictPop(@, price)]
                 ELSE [b EXCEPT !.heap[b.obj.quotes] = DictSet(@, price, quantity)])

\* self.external_quotes = self.quotes: the same dict object, no copy
snapshot_without_copy(b) ==
    [b EXCEPT !.obj.external_quotes = b.obj.quotes]

\* self.external_quotes = dict(self.quotes): a copy, a new dict object
snapshot(b) ==
    [b EXCEPT !.heap = Append(b.heap, b.heap[b.obj.quotes]),
              !.obj.external_quotes = Len(b.heap) + 1]

\* bid_total += value in place of bid_total -= value
bid_total_of_added(d) == DictSum(d, {k \in DOMAIN d : ~(d[k] > 0)})

\* lines 396-403
ask_total_of(d) == DictSum(d, {k \in DOMAIN d : d[k] > 0})
bid_total_of(d) == 0 - DictSum(d, {k \in DOMAIN d : ~(d[k] > 0)})

aux_info(b, loc) ==
    With(b.heap[b.obj.quotes], LAMBDA q :
        [timestamp |-> loc.exchange_timestamp, price |-> b.obj.last_deal_price,
         ask_total |-> ask_total_of(q), bid_total |-> bid_total_of(q),
         oi |-> b.obj.last_oi_after_deal, hi_limit |-> 0, low_limit |-> 0,
         deposit |-> 0, rate |-> 0, message |-> ""])

end_of_transaction(b, loc) ==
    With(snapshot(b), LAMBDA b1 : [b1 EXCEPT !.aux = <<aux_info(b1, loc)>>])

\* the deal pushed on <= in place of <
push_deal_again(b, loc) ==
    IF b.obj.last_pushed_deal_id <= loc.deal_id
    THEN [b EXCEPT !.obj.last_pushed_deal_id = loc.deal_id,
                   !.deal = <<[type |-> IF loc.is_sell THEN TYPE_SELL ELSE TYPE_BUY,
                               id |-> loc.deal_id,
                               timestamp |-> loc.exchange_timestamp,
                               price |-> loc.deal_price,
                               volume |-> b.obj.last_amount,
                               oi |-> loc.oi_after_deal,
                               order_id |-> 0]>>]
    ELSE b

\* the deal pushed with the side taken from is_buy
push_deal_other_side(b, loc) ==
    IF b.obj.last_pushed_deal_id < loc.deal_id
    THEN [b EXCEPT !.obj.last_pushed_deal_id = loc.deal_id,
                   !.deal = <<[type |-> IF loc.is_buy THEN TYPE_SELL ELSE TYPE_BUY,
                               id |-> loc.deal_id,
                               timestamp |-> loc.exchange_timestamp,
                               price |-> loc.deal_price,
                               volume |-> b.obj.last_amount,
                               oi |-> loc.oi_after_deal,
                               order_id |-> 0]>>]
    ELSE b

\* the deal pushed whenever its id differs from the last one pushed
push_deal_any_id(b, loc) ==
    IF b.obj.last_pushed_deal_id # loc.deal_id
    THEN [b EXCEPT !.obj.last_pushed_deal_id = loc.deal_id,
                   !.deal = <<[type |-> IF loc.is_sell THEN TYPE_SELL ELSE TYPE_BUY,
                               id |-> loc.deal_id,
                               timestamp |-> loc.exchange_timestamp,
                               price |-> loc.deal_price,
                               volume |-> b.obj.last_amount,
                               oi |-> loc.oi_after_deal,
                               order_id |-> 0]>>]
    ELSE b

\* lines 407-410
push_deal(b, loc) ==
    IF b.obj.last_pushed_deal_id < loc.deal_id
    THEN [b EXCEPT !.obj.last_pushed_deal_id = loc.deal_id,
                   !.deal = <<[type |-> IF loc.is_sell THEN TYPE_SELL ELSE TYPE_BUY,
                               id |-> loc.deal_id,
                               timestamp |-> loc.exchange_timestamp,
                               price |-> loc.deal_price,
                               volume |-> b.obj.last_amount,
                               oi |-> loc.oi_after_deal,
                               order_id |-> 0]>>]
    ELSE b

ord_log_entry(obj, loc) ==
    [actions_mask |-> loc.actions_mask, exchange_timestamp |-> loc.exchange_timestamp,
     exchange_order_id |-> loc.exchange_order_id, order_price |-> obj.last_order_price,
     amount |-> obj.last_amount, amount_rest |-> loc.amount_rest,
     deal_id |-> loc.deal_id, deal_price |-> loc.deal_price,
     oi_after_deal |-> loc.oi_after_deal]

\* lines 376-410
reconstruct(obj, h, loc) ==
    With(IF is_available(loc.actions_mask, FLOW_START)
         THEN flow_start([obj |-> obj, heap |-> h, aux |-> <<>>, deal |-> <<>>])
         ELSE [obj |-> obj, heap |-> h, aux |-> <<>>, deal |-> <<>>],
         LAMBDA b1 :
    IF ~book_condition(loc) THEN b1
    ELSE With(update_book(b1, loc), LAMBDA b2 :
         With(IF is_available(loc.actions_mask, END_OF_TRANSACTION)
              THEN end_of_transaction(b2, loc) ELSE b2, LAMBDA b3 :
         push_deal(b3, loc))))

\* the whole method: [obj, heap, exc, ret, loc]; ret is the tuple returned
read_ord_log_data(s, h) ==
    With(ord_log_fields(s, 15), LAMBDA st :
        IF st.exc # "none"
        THEN [obj |-> st.obj, heap |-> h, exc |-> st.exc, ret |-> <<>>, loc |-> st.loc]
        ELSE With(reconstruct(st.obj, h, st.loc), LAMBDA b :
                 [obj |-> b.obj, heap |-> b.heap, exc |-> "none", loc |-> st.loc,
                  ret |-> [ord_log_entry |-> ord_log_entry(st.obj, st.loc),
                           aux_info_entry |-> b.aux,
                           external_quotes |-> b.obj.external_quotes,
                           deal_entry |-> b.deal]]))

----------------------------------------------------------------------------
(* The rest of the primitive codec *)

\* struct.unpack("q", data): a signed 64-bit value (two's complement)
unpack_int64(r) ==
    IF r.exc # "none" THEN r
    ELSE IF Len(r.val) # 8 THEN Raise("struct.error", r.rest)
    ELSE IF r.val[8] < 128 THEN Return(le_integer(r.val), r.rest)
    ELSE With([i \in 1..8 |-> 255 - r.val[i]], LAMBDA c :
             Return(IF Narrow(c) THEN 0 - (1 + le_value(c)) ELSE r.val, r.rest))

read_int64(f) == With(read(f, 8), LAMBDA r : unpack_int64(r))

read_uint32(f) == With(read(f, 4), LAMBDA r : unpack_unsigned(4, r))

\* struct.unpack("d", data): the double is kept as its 8 bytes
read_double(f) ==
    With(read(f, 8), LAMBDA r :
        IF r.exc # "none" THEN r
        ELSE IF Len(r.val) # 8 THEN Raise("struct.error", r.rest)
        ELSE r)

\* bytes.decode('ascii')
decode_ascii(r) ==
    IF r.exc # "none" THEN r
    ELSE IF \E i \in 1..Len(r.val) : r.val[i] >= 128
    THEN Raise("UnicodeDecodeError", r.rest)
    ELSE r

read_string(f) ==
    With(read_uleb128(f), LAMBDA length :
        IF length.exc # "none" THEN length
        ELSE With(read(length.rest, length.val), LAMBDA r : decode_ascii(r)))

\* datetime(1, 1, 1) + timedelta(microseconds=nanoseconds//10)
read_datetime(f) ==
    With(read_int64(f), LAMBDA nanoseconds :
        IF nanoseconds.exc # "none" THEN nanoseconds
        ELSE IF nanoseconds.val \div 10 < 0
        THEN Raise("OverflowError", nanoseconds.rest)
        ELSE Return(nanoseconds.val \div 10, nanoseconds.rest))

----------------------------------------------------------------------------
(* The class and its constructor *)

\* "QScalp History Data"
Signature ==
    <<81, 83, 99, 97, 108, 112, 32, 72, 105, 115, 116, 111, 114, 121, 32,
      68, 97, 116, 97>>

MESSAGES == 80
ORD_LOG == 112

\* the attributes the class body sets: every instance starts from them
ClassAttrs ==
    [last_exchange_milliseconds |-> 0, last_order_id |-> 0, last_order_price |-> 0,
     last_amount |-> 0, last_order_amount_rest |-> 0, last_deal_id |-> 0,
     last_deal_price |-> 0, last_oi_after_deal |-> 0, last_pushed_deal_id |-> 0,
     deals_last_milliseconds |-> 0, deals_last_id |-> 0, deals_last_order_id |-> 0,
     deals_last_price |-> 0, deals_last_oi |-> 0,
     auxinfo_last_milliseconds |-> 0, auxinfo_last_ask_total |-> 0,
     auxinfo_last_bid_total |-> 0, auxinfo_last_oi |-> 0, auxinfo_last_price |-> 0,
     auxinfo_last_hi_limit |-> 0, auxinfo_last_low_limit |-> 0,
     auxinfo_last_deposit |-> 0, auxinfo_last_rate |-> 0,
     own_trades_last_milliseconds |-> 0, own_trades_last_trade_id |-> 0,
     own_trades_last_order_id |-> 0, own_trades_last_price |-> 0]

\* assignment to an attribute the instance may not have yet
Assign(s, attr, v) ==
    [a \in (DOMAIN s) \cup {attr} |-> IF a = attr THEN v ELSE s[a]]

HeaderLocals ==
    [version |-> 0, application |-> <<>>, comment |-> <<>>, created_at |-> 0,
     streams_count |-> 0]

\* A file on disk is [gz, raw]: the bytes gzip.open(...) yields and the bytes
\* io.open(...) yields.  Lines 151-160: the signature, read through gzip and,
\* when it differs, read again from the raw file.
open_fileobj(disk) ==
    With(decode_ascii(read(disk.gz, Len(Signature))), LAMBDA g :
        IF g.exc # "none"
        THEN Propagate(Enter(Assign(ClassAttrs, "fileobj", disk.gz), HeaderLocals), g)
        ELSE IF g.val = Signature
        THEN Enter(Assign(ClassAttrs, "fileobj", g.rest), HeaderLocals)
        ELSE With(decode_ascii(read(disk.raw, Len(Signature))), LAMBDA w :
                 IF w.exc # "none"
                 THEN Propagate(Enter(Assign(ClassAttrs, "fileobj", disk.raw),
                                      HeaderLocals), w)
                 ELSE IF w.val = Signature
                 THEN Enter(Assign(ClassAttrs, "fileobj", w.rest), HeaderLocals)
                 ELSE [Enter(Assign(ClassAttrs, "fileobj", w.rest), HeaderLocals)
                          EXCEPT !.exc = "TypeError"]))

\* lines 162-168
header_statement(i, st) ==
    LET f == st.obj.fileobj
    IN  CASE i = 1 -> SetLocal(st, "version", read_byte(f))
          [] i = 2 -> SetLocal(st, "application", read_string(f))
          [] i = 3 -> SetLocal(st, "comment", read_string(f))
          [] i = 4 -> SetLocal(st, "created_at", MsOf(read_datetime(f)))
          [] i = 5 -> SetLocal(st, "streams_count", read_byte(f))

RECURSIVE init_header(_, _)
init_header(disk, n) ==
    IF n = 0 THEN open_fileobj(disk)
    ELSE With(init_header(disk, n - 1), LAMBDA st :
             IF st.exc # "none" THEN st ELSE header_statement(n, st))

\* lines 162-178; the dicts of lines 171, 172 and 176 are three new objects
init_attributes(obj, loc) ==
    [a \in (DOMAIN obj) \cup {"header", "last_created_at_milliseconds", "quotes",
                              "external_quotes", "quotes_last_price", "quotes_dict",
                              "last_frame_milliseconds"} |->
        CASE a = "header" -> [loc EXCEPT !.created_at = to_datetime(@)]
          [] a = "last_created_at_milliseconds" -> loc.created_at
          [] a = "quotes" -> 1
          [] a = "external_quotes" -> 2
          [] a = "quotes_last_price" -> 0
          [] a = "quotes_dict" -> 3
          [] a = "last_frame_milliseconds" -> loc.created_at
          [] OTHER -> obj[a]]

\* __init__: [obj, heap, exc]
qsh_init(disk) ==
    With(init_header(disk, 5), LAMBDA st :
        IF st.exc # "none"
        THEN [obj |-> st.obj, heap |-> <<>>, exc |-> st.exc]
        ELSE [obj |-> init_attributes(st.obj, st.loc),
              heap |-> <<EmptyDict, EmptyDict, EmptyDict>>, exc |-> "none"])

\* read_stream_header with the test for MESSAGES left out: every stream header
\* is read as a type and an instrument code
read_stream_header_with_code(s) ==
    With(SetLocal(Enter(s, [stream_type |-> 0, instrument_code |-> <<>>]),
                  "stream_type", read_byte(s.fileobj)), LAMBDA st :
        IF st.exc # "none" THEN st
        ELSE SetLocal(st, "instrument_code", read_string(st.obj.fileobj)))

\* read_stream_header: [obj, exc, loc]
read_stream_header(s) ==
    With(SetLocal(Enter(s, [stream_type |-> 0, instrument_code |-> <<>>]),
                  "stream_type", read_byte(s.fileobj)), LAMBDA st :
        IF st.exc # "none" \/ st.loc.stream_type = MESSAGES THEN st
        ELSE SetLocal(st, "instrument_code", read_string(st.obj.fileobj)))

\* read_frame_header without the assignment of line 297
read_frame_header_keeps_last(s) ==
    With(SetLocal(Enter(s, [timestamp |-> 0, stream_index |-> 0]), "timestamp",
                  read_growing_datetime(s.fileobj, s.last_frame_milliseconds)),
         LAMBDA st :
        IF st.exc # "none" THEN st
        ELSE IF st.obj.header.streams_count > 1
        THEN SetLocal(st, "stream_index", read_byte(st.obj.fileobj))
        ELSE st)

\* read_frame_header keeping the stream index it read on the instance
read_frame_header_storing_index(s) ==
    With(SetLocal(Enter(s, [timestamp |-> 0, stream_index |-> 0]), "timestamp",
                  read_growing_datetime(s.fileobj, s.last_frame_milliseconds)),
         LAMBDA st :
        IF st.exc # "none" THEN st
        ELSE With([st EXCEPT !.obj.last_frame_milliseconds =
                                 to_milliseconds(st.loc.timestamp)], LAMBDA st2 :
                 IF st2.obj.header.streams_count > 1
                 THEN With(SetLocal(st2, "stream_index", read_byte(st2.obj.fileobj)),
                           LAMBDA st3 :
                          IF st3.exc # "none" THEN st3
                          ELSE [st3 EXCEPT !.obj = Assign(st3.obj, "stream_index",
                                                          st3.loc.stream_index)])
                 ELSE st2))

\* read_frame_header: [obj, exc, loc]
read_frame_header(s) ==
    With(SetLocal(Enter(s, [timestamp |-> 0, stream_index |-> 0]), "timestamp",
                  read_growing_datetime(s.fileobj, s.last_frame_milliseconds)),
         LAMBDA st :
        IF st.exc # "none" THEN st
        ELSE With([st EXCEPT !.obj.last_frame_milliseconds =
                                 to_milliseconds(st.loc.timestamp)], LAMBDA st2 :
                 IF st2.obj.header.streams_count > 1
                 THEN SetLocal(st2, "stream_index", read_byte(st2.obj.fileobj))
                 ELSE st2))

----------------------------------------------------------------------------
(* The files the model opens *)

\* the gzip container of a file (never read: every file below is a gzip file
\* whose content starts with the signature)
GzipBytes == <<31, 139, 8, 0>>

\* A well-formed file: the header (version 1, application, comment "",
\* created_at in ticks, streams_count), the stream headers, the frames.
MkFile(application, ticks, n, streams, frames) ==
    [gz      |-> Signature \o <<1>> \o application \o <<0>> \o ticks \o <<n>>
                 \o streams \o frames,
     raw     |-> GzipBytes,
     n       |-> n,
     streams |-> streams,
     frames  |-> frames]

\* tick 0 and tick 20000 (2 ms)
Tick0 == <<0, 0, 0, 0, 0, 0, 0, 0>>
Tick20000 == <<32, 78, 0, 0, 0, 0, 0, 0>>

\* a frame of a one-stream file (5 ms later; an ord-log record ADD + BUY without
\* fields), of a two-stream file (5 ms later, stream 1, the same record) and of a
\* MESSAGES file (5 ms later; a message at tick 0, type 1, text "H")
OrdLogFrame == <<5, 0, 20, 0>>
OrdLogFrame2 == <<5, 1, 0, 20, 0>>
MessageFrame == <<5>> \o Tick0 \o <<1, 1, 72>>

Files ==
    {MkFile(app, t, c[1], c[2], c[3]) :
        app \in {<<0>>, <<1, 65>>},
        t \in {Tick0, Tick20000},
        c \in {<<0, <<>>, <<>>>>,
               <<1, <<ORD_LOG, 1, 88>>, OrdLogFrame>>,
               <<1, <<MESSAGES>>, MessageFrame>>,
               <<2, <<MESSAGES, ORD_LOG, 1, 88>>, OrdLogFrame2>>}}

\* the one-stream ORD_LOG file the streaming specifications read
OneStreamFile == MkFile(<<1, 65>>, Tick0, 1, <<ORD_LOG, 1, 88>>, <<>>)

----------------------------------------------------------------------------
(* The ord-log records the model reads *)

\* an ord-log record as it lies in the file: the availability mask, the actions
\* mask (16 bits, low byte first) and the bytes of the fields
Record(availability_mask, actions_mask, payload) ==
    <<availability_mask, actions_mask % 256, actions_mask \div 256>> \o payload

\* signed LEB128: 0, +100
PriceBytes == {<<0>>, <<228, 0>>}
\* signed LEB128: 5, 0, -5
AmountBytes == {<<5>>, <<0>>, <<123>>}

\* adds of both sides, a cancel and a fill, inside and at the end of a
\* transaction
PlainActions ==
    {ADD + BUY, ADD + SELL, ADD + BUY + END_OF_TRANSACTION,
     ADD + SELL + END_OF_TRANSACTION, FILL + SELL,
     CANCELED + BUY + END_OF_TRANSACTION}

\* a flow start, alone and on a record that updates the book; records that fail
\* the condition of line 379 each way
OtherActions ==
    {FLOW_START, FLOW_START + ADD + SELL + END_OF_TRANSACTION,
     FLOW_START + ADD + BUY, NON_SYSTEM + ADD + BUY + END_OF_TRANSACTION,
     NON_ZERO_REPL_ACT + ADD + SELL + END_OF_TRANSACTION,
     ADD + BUY + SELL + END_OF_TRANSACTION, END_OF_TRANSACTION}

BookRecords ==
    {Record(ORDER_PRICE + AMOUNT, am, p \o a) :
        am \in PlainActions, p \in PriceBytes, a \in AmountBytes}
    \cup
    {Record(AMOUNT, am, a) : am \in OtherActions, a \in {<<5>>, <<0>>}}

\* unsigned LEB128 0 and 1, and the escape 0x0FFFFFFF followed by signed -1
DealIdBytes == {<<0>>, <<1>>, <<255, 255, 255, 127, 127>>}

\* fills of both sides, and fills that fail the condition of line 379 each way
FillActions ==
    {FILL + BUY, FILL + SELL + END_OF_TRANSACTION, FILL + BUY + NON_SYSTEM,
     FILL + SELL + NON_ZERO_REPL_ACT + END_OF_TRANSACTION, FILL + BUY + SELL, FILL}

\* Fills with price +100, amount 5, a deal id, deal price +7 and open interest
\* +3, and the same of amount 3 at the end of a transaction; fills that repeat
\* the last values but the deal id; and adds, one of them with the DEAL_ID
\* bit set, which is not read without FILL.
DealRecords ==
    {Record(ORDER_PRICE + AMOUNT + DEAL_ID + DEAL_PRICE + OI_AFTER_DEAL, am,
            <<228, 0, 5>> \o d \o <<7, 3>>) :
        am \in FillActions, d \in DealIdBytes}
    \cup
    {Record(ORDER_PRICE + AMOUNT + DEAL_ID + DEAL_PRICE + OI_AFTER_DEAL,
            FILL + BUY + END_OF_TRANSACTION, <<228, 0, 3>> \o d \o <<7, 3>>) :
        d \in DealIdBytes}
    \cup
    {Record(DEAL_ID, am, d) :
        am \in {FILL + BUY + END_OF_TRANSACTION, FILL + SELL}, d \in DealIdBytes}
    \cup
    {Record(ORDER_PRICE + AMOUNT, am, p \o <<5>>) :
        am \in {ADD + BUY + END_OF_TRANSACTION, ADD + SELL}, p \in PriceBytes}
    \cup
    {Record(ORDER_PRICE + AMOUNT + DEAL_ID, ADD + SELL + END_OF_TRANSACTION,
            <<228, 0, 5>>)}

----------------------------------------------------------------------------
(* Actions *)

Constructed == Len(log) > 0 /\ log[1] = <<"open", "none">>

\* the object exists and the run goes on
CanCall == Constructed /\ calls < MaxCalls

\* qsh.open(filename): QshFile(filename, mode)
Open ==
    /\ log = <<>>
    /\ \E c \in {qsh_init(file)} :
           /\ self' = c.obj
           /\ heap' = c.heap
           /\ exc' = c.exc
           /\ ret' = [op |-> "open", before |-> file.gz]
           /\ log' = <<<<"open", c.exc>>>>
    /\ UNCHANGED <<file, py3, calls, held, emitted, fed>>

\* a call of a method whose body ran to st = [obj, exc, loc]
MethodCall(op, st) ==
    /\ self' = st.obj
    /\ exc' = st.exc
    /\ ret' = [op |-> op, before |-> self.fileobj, val |-> st.loc]
    /\ log' = Append(log, <<op, st.exc>>)
    /\ calls' = calls + 1
    /\ UNCHANGED <<file, heap, py3, held, emitted, fed>>

ReadStreamHeader ==
    /\ CanCall
    /\ \E st \in {read_stream_header(self)} : MethodCall("read_stream_header", st)

ReadFrameHeader ==
    /\ CanCall
    /\ \E st \in {read_frame_header(self)} : MethodCall("read_frame_header", st)

\* a call of a reader of the primitive codec, which returned or raised r; need
\* is the number of bytes it asks the file for
PrimitiveCall(op, need, r) ==
    /\ self' = [self EXCEPT !.fileobj = r.rest]
    /\ exc' = r.exc
    /\ ret' = [op |-> op, before |-> self.fileobj, need |-> need, val |-> r.val]
    /\ log' = Append(log, <<op, r.exc>>)
    /\ calls' = calls + 1
    /\ UNCHANGED <<file, heap, py3, held, emitted, fed>>

ReadLengths == {1, 3}

Read ==
    /\ CanCall
    /\ \E n \in ReadLengths :
          \E r \in {read(self.fileobj, n)} : PrimitiveCall("read", n, r)

ReadByte ==
    /\ CanCall
    /\ \E r \in {read_byte(self.fileobj)} : PrimitiveCall("read_byte", 1, r)

ReadUint16 ==
    /\ CanCall
    /\ \E r \in {read_uint16(self.fileobj)} : PrimitiveCall("read_uint16", 2, r)

ReadUint32 ==
    /\ CanCall
    /\ \E r \in {read_uint32(self.fileobj)} : PrimitiveCall("read_uint32", 4, r)

ReadInt64 ==
    /\ CanCall
    /\ \E r \in {read_int64(self.fileobj)} : PrimitiveCall("read_int64", 8, r)

ReadDouble ==
    /\ CanCall
    /\ \E r \in {read_double(self.fileobj)} : PrimitiveCall("read_double", 8, r)

\* the bytes a LEB128 value takes at the front of f: up to the first byte
\* without the continuation bit, one more than there are if there is none
RECURSIVE Leb128Need(_)
Leb128Need(f) ==
    IF Len(f) = 0 THEN 1
    ELSE IF Head(f) < 128 THEN 1
    ELSE 1 + Leb128Need(Tail(f))

ReadUleb128 ==
    /\ CanCall
    /\ \E r \in {read_uleb128(self.fileobj)} :
          PrimitiveCall("read_uleb128", Leb128Need(self.fileobj), r)

ReadLeb128 ==
    /\ CanCall
    /\ \E r \in {read_leb128(self.fileobj)} :
          PrimitiveCall("read_leb128", Leb128Need(self.fileobj), r)

\* the bytes a string takes at the front of f: its length prefix and its text
StringNeed(f) ==
    With(Leb128Need(f), LAMBDA k :
        IF k > Len(f) THEN k
        ELSE k + uleb128_loop(SubSeq(f, 1, k), 0, 0).val)

ReadString ==
    /\ CanCall
    /\ \E r \in {read_string(self.fileobj)} :
          PrimitiveCall("read_string", StringNeed(self.fileobj), r)

\* The file continues with the bytes buf and the caller reads one ord-log
\* record.  ret keeps, beside the tuple returned, the availability mask read
\* and the contents of the quotes map when the call was made.
OrdLogCall(buf) ==
    /\ calls < MaxCalls
    /\ \E out \in {read_ord_log_data([self EXCEPT !.fileobj = @ \o buf], heap)} :
           /\ self' = out.obj
           /\ heap' = out.heap
           /\ exc' = out.exc
           /\ ret' = [op |-> "read_ord_log_data", val |-> out.ret,
                      availability_mask |-> out.loc.availability_mask,
                      quotes_before |-> heap[self.quotes]]
           /\ held' = IF out.exc = "none"
                      THEN held \cup {<<out.ret.external_quotes,
                                        out.heap[out.ret.external_quotes]>>}
                      ELSE held
           /\ emitted' = IF out.exc = "none" /\ out.ret.deal_entry # <<>>
                         THEN Append(emitted, out.ret.deal_entry[1].id)
                         ELSE emitted
    /\ calls' = calls + 1
    /\ UNCHANGED <<file, log, py3>>

ReadOrdLogData(buf) == OrdLogCall(buf) /\ UNCHANGED fed

----------------------------------------------------------------------------
(* Specifications *)

\* SpecFile: a file of Files is opened under either interpreter and the caller
\* reads stream headers, frame headers and primitive values in any order.
InitFile ==
    /\ file \in Files
    /\ py3 \in BOOLEAN
    /\ log = <<>>
    /\ self = ClassAttrs
    /\ heap = <<>>
    /\ exc = "none"
    /\ ret = [op |-> "new"]
    /\ calls = 0
    /\ held = {}
    /\ emitted = <<>>
    /\ fed = <<>>

NextFile ==
    \/ Open
    \/ ReadStreamHeader
    \/ ReadFrameHeader
    \/ Read
    \/ ReadByte
    \/ ReadUint16
    \/ ReadUint32
    \/ ReadInt64
    \/ ReadDouble
    \/ ReadUleb128
    \/ ReadLeb128
    \/ ReadString

SpecFile == InitFile /\ [][NextFile]_vars

\* SpecBook: OneStreamFile has been opened and its stream header read; the file
\* goes on with records of BookRecords, read one per call.  The records are
\* complete, so no read ends early and the interpreter makes no difference.
InitOrdLog ==
    /\ file = OneStreamFile
    /\ py3 = TRUE
    /\ \E c \in {qsh_init(OneStreamFile)} :
         \E h \in {read_stream_header(c.obj)} :
            /\ self = h.obj
            /\ heap = c.heap
    /\ log = <<<<"open", "none">>, <<"read_stream_header", "none">>>>
    /\ exc = "none"
    /\ ret = [op |-> "read_stream_header"]
    /\ calls = 0
    /\ held = {}
    /\ emitted = <<>>
    /\ fed = <<>>

NextBook == \E buf \in BookRecords : ReadOrdLogData(buf)

SpecBook == InitOrdLog /\ [][NextBook]_vars

\* SpecDeals: as SpecBook, with the records of DealRecords.
NextDeals == \E buf \in DealRecords : ReadOrdLogData(buf)

SpecDeals == InitOrdLog /\ [][NextDeals]_vars

----------------------------------------------------------------------------
(* Opening a file: who reads the stream headers *)

OpenOk == <<"open", "none">>
StreamHeaderOk == <<"read_stream_header", "none">>

\* the calls so far are the open and k read_stream_header calls, none raising
OpenedThenStreamHeaders(calls_so_far, k) ==
    /\ Len(calls_so_far) = 1 + k
    /\ calls_so_far[1] = OpenOk
    /\ \A i \in 2..(1 + k) : calls_so_far[i] = StreamHeaderOk

\* C1 as the specification states it: when open() has returned on a file that
\* declares N streams, the N stream headers have been consumed, so the unread
\* remainder is the frames and a read_frame_header() made right after the open
\* starts at the first frame's timestamp delta.
C1_OpenConsumesStreamHeaders ==
    /\ (log = <<OpenOk>>) => self.fileobj = file.frames
    /\ (Len(log) = 2 /\ log[1] = OpenOk /\ log[2][1] = "read_frame_header")
          => ret.before = file.frames

\* C1 as the code has it: open() consumes the file header up to and including
\* streams_count and no stream header; the N stream headers are consumed by N
\* read_stream_header() calls of the caller (a type byte, and an instrument
\* code unless the type is MESSAGES), after which, for every N >= 0, the first
\* read_frame_header() starts at the first frame's timestamp delta and, when
\* there is a frame, returns the creation time plus that delta (5 ms).
C1_CallerConsumesStreamHeaders ==
    /\ (log = <<OpenOk>>)
          => /\ self.fileobj = file.streams \o file.frames
             /\ self.header.streams_count = file.n
    /\ OpenedThenStreamHeaders(log, file.n) => self.fileobj = file.frames
    /\ ( /\ Len(log) = 2 + file.n
         /\ OpenedThenStreamHeaders(SubSeq(log, 1, 1 + file.n), file.n)
         /\ log[Len(log)][1] = "read_frame_header" )
          => /\ ret.before = file.frames
             /\ (file.frames # <<>>)
                   => /\ exc = "none"
                      /\ ret.val.timestamp = self.header.created_at + 5000

\* a two-stream file, its two stream headers read by the caller (the first of
\* type MESSAGES), then the first frame header, of stream 1
C1_Witness ==
    /\ file.n = 2
    /\ log = <<OpenOk, StreamHeaderOk, StreamHeaderOk, <<"read_frame_header", "none">>>>
    /\ ret.op = "read_frame_header"
    /\ ret.before = file.frames
    /\ ret.val.stream_index = 1

----------------------------------------------------------------------------
(* The primitive readers at the end of the file *)

Primitives ==
    {"read", "read_byte", "read_uint16", "read_uint32", "read_int64", "read_double",
     "read_uleb128", "read_leb128", "read_string"}

\* C2: a primitive read that asks for n bytes either consumes exactly those n
\* bytes and returns, or, when fewer than n remain (none, or some but not all),
\* raises EOFError; it raises nothing else, and read(n) never returns fewer
\* than n bytes.  A read_frame_header() at the end of the file raises EOFError.
C2_ExactOrEOFError ==
    /\ (ret.op \in Primitives)
          => IF Len(ret.before) >= ret.need
             THEN /\ exc = "none"
                  /\ self.fileobj = SubSeq(ret.before, ret.need + 1, Len(ret.before))
                  /\ (ret.op = "read") => Len(ret.val) = ret.need
             ELSE exc = "EOFError"
    /\ (ret.op = "read_frame_header" /\ ret.before = <<>>) => exc = "EOFError"

----------------------------------------------------------------------------
(* The order book read_ord_log_data keeps *)

HasFlag(mask, flag) == (mask \div flag) % 2 = 1

\* the book-update condition: one side, a system record, no NON_ZERO_REPL_ACT
PassesBookCondition(mask) ==
    /\ HasFlag(mask, BUY) # HasFlag(mask, SELL)
    /\ ~HasFlag(mask, NON_SYSTEM)
    /\ ~HasFlag(mask, NON_ZERO_REPL_ACT)

\* the last call read an ord-log record and returned
Returned == ret.op = "read_ord_log_data" /\ exc = "none"

Entry == ret.val.ord_log_entry
Mask == Entry.actions_mask
AuxInfo == ret.val.aux_info_entry
Deal == ret.val.deal_entry
Quotes == heap[self.quotes]
ExternalQuotes == heap[ret.val.external_quotes]

Quantity(d, price) == IF price \in DOMAIN d THEN d[price] ELSE 0

\* what the record's update adds to the quantity at its price: an ADD of the
\* sell side and a cancel or fill of the buy side add the amount, the other
\* two subtract it
SignedAmount == IF HasFlag(Mask, ADD) = HasFlag(Mask, SELL) THEN Entry.amount
                ELSE 0 - Entry.amount

\* the quantity the record's update found at its price
QuantityFound ==
    IF HasFlag(Mask, FLOW_START) THEN 0 ELSE Quantity(ret.quotes_before, Entry.order_price)

\* the record's update found a quantity at its price and drove it to zero
DrivenToZero ==
    /\ Returned
    /\ PassesBookCondition(Mask)
    /\ QuantityFound # 0
    /\ QuantityFound + SignedAmount = 0

\* C3 as the specification states it: after a record whose book update drives
\* the quantity at a price to zero, the price is absent from the quotes map
\* and from the external_quotes the call returns, with END_OF_TRANSACTION or
\* without.
C3_ZeroRemovedFromBoth ==
    DrivenToZero
      => /\ Entry.order_price \notin DOMAIN Quotes
         /\ Entry.order_price \notin DOMAIN ExternalQuotes

\* C3 as the code has it: after a record whose book update drives the quantity
\* at a price to zero, the price is absent from the quotes map, and from the
\* external_quotes the call returns when the record carries
\* END_OF_TRANSACTION, the only records on which the snapshot is taken.
C3_ZeroRemoved ==
    DrivenToZero
      => /\ Entry.order_price \notin DOMAIN Quotes
         /\ HasFlag(Mask, END_OF_TRANSACTION)
               => Entry.order_price \notin DOMAIN ExternalQuotes

\* a fill takes the 5 at price 100 inside a transaction: the price has left
\* the quotes map and the snapshot returned is the one taken before
C3_Witness ==
    /\ DrivenToZero
    /\ Mask = FILL + SELL
    /\ Entry.order_price = 100
    /\ Quantity(ret.quotes_before, 100) = 5
    /\ 100 \notin DOMAIN Quotes
    /\ Quantity(ExternalQuotes, 100) = 5

NoZero(d) == \A price \in DOMAIN d : d[price] # 0

\* C4: in every reachable state, whatever records were read (any masks,
\* prices and amounts, zero and negative amounts too), neither the quotes map
\* nor the external_quotes snapshot maps a price to 0.
C4_NoZeroQuantity ==
    /\ NoZero(Quotes)
    /\ NoZero(heap[self.external_quotes])
    /\ Returned => NoZero(ExternalQuotes)

\* a negative amount added at the end of a transaction cancels the quantity
\* at its price, other prices staying in the book
C4_Witness ==
    /\ DrivenToZero
    /\ HasFlag(Mask, END_OF_TRANSACTION)
    /\ Entry.amount < 0
    /\ Quotes # EmptyDict
    /\ ExternalQuotes = Quotes

----------------------------------------------------------------------------
(* The snapshots handed to the caller *)

\* C7: a snapshot returned as the third element by one read_ord_log_data call
\* has, after any later calls, the contents it had when it was returned.
C7_SnapshotsKeepContents ==
    \A h \in held : heap[h[1]] = h[2]

\* a snapshot with quantities is held while the quotes map has moved on and a
\* newer snapshot has been taken
C7_Witness ==
    \E h \in held :
        /\ h[2] # EmptyDict
        /\ h[2] # Quotes
        /\ h[1] # self.external_quotes
        /\ heap[self.external_quotes] # h[2]

----------------------------------------------------------------------------
(* FLOW_START *)

\* the last_* attribute each availability bit lets a record read
LastValueOf ==
    {<<DATETIME, "last_exchange_milliseconds">>, <<ORDER_ID, "last_order_id">>,
     <<ORDER_PRICE, "last_order_price">>, <<AMOUNT, "last_amount">>,
     <<ORDER_AMOUNT_REST, "last_order_amount_rest">>, <<DEAL_ID, "last_deal_id">>,
     <<DEAL_PRICE, "last_deal_price">>, <<OI_AFTER_DEAL, "last_oi_after_deal">>}

\* the step is a read_ord_log_data call that returns
OrdLogStep == calls' = calls + 1 /\ Returned'

FlowStartStep ==
    OrdLogStep =>
        /\ HasFlag(Mask', FLOW_START)
              => /\ Quotes' = IF PassesBookCondition(Mask') /\ SignedAmount' # 0
                              THEN [price \in {Entry'.order_price} |-> SignedAmount']
                              ELSE EmptyDict
                 /\ \A v \in LastValueOf :
                        ~HasFlag(ret'.availability_mask, v[1]) => self'[v[2]] = self[v[2]]
                 /\ self'.last_pushed_deal_id >= self.last_pushed_deal_id
                 /\ (Deal' = <<>>) => self'.last_pushed_deal_id = self.last_pushed_deal_id
        /\ ~HasFlag(Mask', FLOW_START)
              => \A price \in (DOMAIN Quotes) \ {Entry'.order_price} :
                     /\ price \in DOMAIN Quotes'
                     /\ Quotes'[price] = Quotes[price]

\* C8: a record with FLOW_START empties the quotes map before its own update,
\* so after the call the map holds the one entry this record produced, or
\* nothing when the record fails the book-update condition or its update
\* yields 0; a record without FLOW_START keeps every other price of the map;
\* FLOW_START resets no last_* value (one the record does not read keeps its
\* value) and does not reset last_pushed_deal_id.
C8_FlowStartReset == [][FlowStartStep]_vars

\* a book of two prices is replaced by the one entry of a FLOW_START record
C8_Witness ==
    /\ Returned
    /\ Mask = FLOW_START + ADD + BUY
    /\ Cardinality(DOMAIN ret.quotes_before) = 2
    /\ Quotes = [price \in {Entry.order_price} |-> 0 - 5]
    /\ Entry.order_price \in DOMAIN ret.quotes_before

----------------------------------------------------------------------------
(* An add and the cancel or fill that takes it back *)

\* the step reads the non-ADD record that matches the ADD record read by the
\* call before: the same side, price and amount, both passing the condition
CancelOfLastAdd ==
    /\ Returned
    /\ OrdLogStep
    /\ PassesBookCondition(Mask) /\ PassesBookCondition(Mask')
    /\ HasFlag(Mask, ADD) /\ ~HasFlag(Mask', ADD)
    /\ HasFlag(Mask, BUY) = HasFlag(Mask', BUY)
    /\ Entry.order_price = Entry'.order_price
    /\ Entry.amount = Entry'.amount

\* an ADD of a positive amount at a price without quantity: the buy side
\* stores the amount negated, the sell side the amount
AddStoresSigned ==
    (Returned /\ PassesBookCondition(Mask) /\ HasFlag(Mask, ADD)
       /\ Entry.amount > 0 /\ QuantityFound = 0)
      => /\ HasFlag(Mask, BUY) => Quantity(Quotes, Entry.order_price) = 0 - Entry.amount
         /\ HasFlag(Mask, SELL) => Quantity(Quotes, Entry.order_price) = Entry.amount

\* scenario S4, frame 1: on an empty book BUY-ADD 5 at 100 with END_OF_TRANSACTION
S4_Add ==
    /\ Returned
    /\ ret.quotes_before = EmptyDict
    /\ Mask = ADD + BUY + END_OF_TRANSACTION
    /\ Entry.order_price = 100
    /\ Entry.amount = 5

S4_AddResult ==
    /\ ExternalQuotes = [price \in {100} |-> 0 - 5]
    /\ AuxInfo # <<>>
    /\ AuxInfo[1].ask_total = 0
    /\ AuxInfo[1].bid_total = 5

\* scenario S4, frame 2: the matching CANCELED|BUY with END_OF_TRANSACTION
S4_Cancel ==
    /\ S4_Add
    /\ OrdLogStep
    /\ Mask' = CANCELED + BUY + END_OF_TRANSACTION
    /\ Entry'.order_price = 100
    /\ Entry'.amount = 5

S4_CancelResult ==
    /\ ExternalQuotes = EmptyDict
    /\ AuxInfo # <<>>
    /\ AuxInfo[1].ask_total = 0
    /\ AuxInfo[1].bid_total = 0

\* C10 as the specification states it: from any book state, an ADD record
\* followed by a non-ADD record of the same side, price and amount, both
\* passing the book-update condition, leaves the quotes map as it was before
\* the ADD; a BUY-ADD stores a negative and a SELL-ADD a positive quantity;
\* scenario S4.
C10_RoundTripAnyRecords ==
    [][ /\ CancelOfLastAdd => Quotes' = ret.quotes_before
        /\ AddStoresSigned'
        /\ S4_Add' => S4_AddResult'
        /\ S4_Cancel => S4_CancelResult' ]_vars

\* C10 as the code has it: the same, for two records of which neither carries
\* FLOW_START (a FLOW_START on either empties the map first, so the state
\* before the ADD does not come back).
C10_RoundTrip ==
    [][ /\ ( /\ CancelOfLastAdd
             /\ ~HasFlag(Mask, FLOW_START)
             /\ ~HasFlag(Mask', FLOW_START) )
              => Quotes' = ret.quotes_before
        /\ AddStoresSigned'
        /\ S4_Add' => S4_AddResult'
        /\ S4_Cancel => S4_CancelResult' ]_vars

\* a BUY-ADD of 5 at 100 on a book that holds 5 at price 0 has been cancelled:
\* the book is the one before the ADD
C10_Witness ==
    /\ Returned
    /\ Mask = CANCELED + BUY + END_OF_TRANSACTION
    /\ Entry.order_price = 100
    /\ Entry.amount = 5
    /\ ret.quotes_before = [price \in {0, 100} |-> IF price = 0 THEN 5 ELSE 0 - 5]
    /\ Quotes = [price \in {0} |-> 5]
    /\ ExternalQuotes = Quotes
    /\ AuxInfo[1].ask_total = 5
    /\ AuxInfo[1].bid_total = 0

----------------------------------------------------------------------------
(* Deals *)

\* C5: over any sequence of read_ord_log_data calls last_pushed_deal_id never
\* decreases, the ids of the DealEntry values returned are strictly
\* increasing, and a record whose deal_id equals last_pushed_deal_id returns
\* no DealEntry.
C5_DealGating ==
    [][ OrdLogStep =>
          /\ self'.last_pushed_deal_id >= self.last_pushed_deal_id
          /\ \A i \in 1..Len(emitted') : \A j \in (i + 1)..Len(emitted') :
                 emitted'[i] < emitted'[j]
          /\ (Entry'.deal_id = self.last_pushed_deal_id) => Deal' = <<>> ]_vars

\* a fill that passes the condition repeats the id of the deal pushed last and
\* returns no DealEntry
C5_Witness ==
    /\ Returned
    /\ HasFlag(Mask, FILL)
    /\ PassesBookCondition(Mask)
    /\ Len(emitted) = 1
    /\ Entry.deal_id = emitted[1]
    /\ Entry.deal_id = self.last_pushed_deal_id
    /\ Deal = <<>>
    /\ calls = 2

\* the DealEntry of the record read
DealOf(entry) ==
    [type |-> IF HasFlag(entry.actions_mask, SELL) THEN TYPE_SELL ELSE TYPE_BUY,
     id |-> entry.deal_id, timestamp |-> entry.exchange_timestamp,
     price |-> entry.deal_price, volume |-> entry.amount,
     oi |-> entry.oi_after_deal, order_id |-> 0]

\* C6 as the specification states it: every record whose deal_id, after its
\* fields are read, is greater than last_pushed_deal_id advances
\* last_pushed_deal_id to it and returns the DealEntry, whatever its BUY, SELL,
\* NON_SYSTEM and NON_ZERO_REPL_ACT bits.
C6_DealForEveryFill ==
    [][ (OrdLogStep /\ Entry'.deal_id > self.last_pushed_deal_id)
          => /\ self'.last_pushed_deal_id = Entry'.deal_id
             /\ Deal' = <<DealOf(Entry')>> ]_vars

\* C6 as the code has it: a record whose deal_id is greater than
\* last_pushed_deal_id advances last_pushed_deal_id and returns the DealEntry
\* when it passes the book-update condition; a record that fails the
\* condition returns no DealEntry and leaves last_pushed_deal_id alone.
C6_DealForBookFill ==
    [][ OrdLogStep =>
          /\ (PassesBookCondition(Mask') /\ Entry'.deal_id > self.last_pushed_deal_id)
                => /\ self'.last_pushed_deal_id = Entry'.deal_id
                   /\ Deal' = <<DealOf(Entry')>>
          /\ ~PassesBookCondition(Mask')
                => /\ self'.last_pushed_deal_id = self.last_pushed_deal_id
                   /\ Deal' = <<>> ]_vars

\* deal 1 came on a fill that fails the condition and was not pushed; deal 2,
\* of the sell side, is the first DealEntry returned
C6_Witness ==
    /\ Returned
    /\ calls = 2
    /\ emitted = <<2>>
    /\ Deal = <<DealOf(Entry)>>
    /\ Deal[1].type = TYPE_SELL
    /\ Deal[1].id = 2
    /\ Deal[1].volume = 5

----------------------------------------------------------------------------
(* The AuxInfoEntry of a transaction's end *)

\* C9: read_ord_log_data returns an AuxInfoEntry exactly when the record
\* passes the book-update condition and carries END_OF_TRANSACTION; its
\* ask_total is the sum of the positive quantities and its bid_total the sum
\* of the negated negative quantities of the quotes map after the record's
\* update, both >= 0; its price is last_deal_price, its oi last_oi_after_deal;
\* hi_limit, low_limit, deposit and rate are 0 and the message is empty.
C9_AuxInfoAtEndOfTransaction ==
    Returned =>
        /\ (AuxInfo # <<>>)
              <=> (PassesBookCondition(Mask) /\ HasFlag(Mask, END_OF_TRANSACTION))
        /\ (AuxInfo # <<>>)
              => /\ Len(AuxInfo) = 1
                 /\ AuxInfo[1].ask_total
                      = DictSum(Quotes, {price \in DOMAIN Quotes : Quotes[price] > 0})
                 /\ AuxInfo[1].bid_total
                      = 0 - DictSum(Quotes, {price \in DOMAIN Quotes : Quotes[price] < 0})
                 /\ AuxInfo[1].ask_total >= 0
                 /\ AuxInfo[1].bid_total >= 0
                 /\ AuxInfo[1].price = self.last_deal_price
                 /\ AuxInfo[1].oi = self.last_oi_after_deal
                 /\ AuxInfo[1].hi_limit = 0
                 /\ AuxInfo[1].low_limit = 0
                 /\ AuxInfo[1].deposit = 0
                 /\ AuxInfo[1].rate = 0
                 /\ AuxInfo[1].message = ""

\* after a deal at price 7 with open interest 3 the book has both sides
C9_Witness ==
    /\ Returned
    /\ AuxInfo # <<>>
    /\ AuxInfo[1].ask_total > 0
    /\ AuxInfo[1].bid_total > 0
    /\ AuxInfo[1].price = 7
    /\ AuxInfo[1].oi = 3

----------------------------------------------------------------------------
(* The encodings the readers decode *)

\* the signed LEB128 bytes of v: seven bits a byte, low bits first, ending
\* with the first byte whose bit 0x40 gives the sign of what is left
RECURSIVE Leb128Bytes(_)
Leb128Bytes(v) ==
    LET low  == v % 128
        rest == (v - low) \div 128
    IN  IF (rest = 0 /\ low < 64) \/ (rest = 0 - 1 /\ low >= 64) THEN <<low>>
        ELSE <<low + 128>> \o Leb128Bytes(rest)

\* the ULEB128 bytes of v >= 0
RECURSIVE Uleb128Bytes(_)
Uleb128Bytes(v) ==
    IF v < 128 THEN <<v>> ELSE <<(v % 128) + 128>> \o Uleb128Bytes(v \div 128)

----------------------------------------------------------------------------
(* read_quotes_data (lines 422-435) *)

\* one pass of the loop with the price read as it stands, not as a delta
quotes_pair_absolute(st) ==
    With(SetAttr(st, "quotes_last_price", read_leb128(st.obj.fileobj)), LAMBDA s1 :
        IF s1.exc # "none" THEN s1
        ELSE With(SetLocal(s1, "volume", read_leb128(s1.obj.fileobj)), LAMBDA s2 :
            IF s2.exc # "none" THEN s2
            ELSE IF s2.loc.volume = 0
            THEN IF s2.obj.quotes_last_price \in DOMAIN s2.heap[s2.obj.quotes_dict]
                 THEN [s2 EXCEPT !.heap[s2.obj.quotes_dict] =
                                     DictPop(@, s2.obj.quotes_last_price)]
                 ELSE [s2 EXCEPT !.exc = "KeyError"]
            ELSE [s2 EXCEPT !.heap[s2.obj.quotes_dict] =
                                DictSet(@, s2.obj.quotes_last_price, s2.loc.volume)]))

\* one pass of the loop, lines 428-434, on st = [obj, exc, loc, heap]; del
\* raises KeyError for a key the dict does not hold
quotes_pair(st) ==
    With(SetAttr(st, "quotes_last_price",
                 read_relative(st.obj.fileobj, st.obj.quotes_last_price)), LAMBDA s1 :
        IF s1.exc # "none" THEN s1
        ELSE With(SetLocal(s1, "volume", read_leb128(s1.obj.fileobj)), LAMBDA s2 :
            IF s2.exc # "none" THEN s2
            ELSE IF s2.loc.volume = 0
            THEN IF s2.obj.quotes_last_price \in DOMAIN s2.heap[s2.obj.quotes_dict]
                 THEN [s2 EXCEPT !.heap[s2.obj.quotes_dict] =
                                     DictPop(@, s2.obj.quotes_last_price)]
                 ELSE [s2 EXCEPT !.exc = "KeyError"]
            ELSE [s2 EXCEPT !.heap[s2.obj.quotes_dict] =
                                DictSet(@, s2.obj.quotes_last_price, s2.loc.volume)]))

\* for i in range(count), up to the first raise
RECURSIVE quotes_loop(_, _)
quotes_loop(st, count) ==
    IF count <= 0 \/ st.exc # "none" THEN st
    ELSE With(quotes_pair(st), LAMBDA t : quotes_loop(t, count - 1))

\* the whole method: [obj, heap, exc, ret]; ret is the dict returned, a copy
read_quotes_data(s, h) ==
    With(SetLocal([obj |-> s, exc |-> "none", loc |-> [count |-> 0, volume |-> 0],
                   heap |-> h], "count", read_leb128(s.fileobj)), LAMBDA st :
        IF st.exc # "none"
        THEN [obj |-> st.obj, heap |-> st.heap, exc |-> st.exc, ret |-> 0]
        ELSE With(quotes_loop(st, st.loc.count), LAMBDA t :
                 IF t.exc # "none"
                 THEN [obj |-> t.obj, heap |-> t.heap, exc |-> t.exc, ret |-> 0]
                 ELSE [obj |-> t.obj, heap |-> Append(t.heap, t.heap[t.obj.quotes_dict]),
                       exc |-> "none", ret |-> Len(t.heap) + 1]))

\* the bytes of the pairs <<price delta, volume>>
RECURSIVE PairBytes(_)
PairBytes(pairs) ==
    IF pairs = <<>> THEN <<>>
    ELSE Leb128Bytes(Head(pairs)[1]) \o Leb128Bytes(Head(pairs)[2])
           \o PairBytes(Tail(pairs))

\* a quotes record: the count and the pairs
QuotesRecord(pairs) == Leb128Bytes(Len(pairs)) \o PairBytes(pairs)

\* the lists of pairs the model reads: writes, overwrites and deletes at new
\* and old prices, a delete of a price just written, a negative volume
QuotePairs ==
    {<<>>, <<<<10, 7>>>>, <<<<10, 7>>, <<5, 0>>>>, <<<<0, 0>>>>, <<<<0, 9>>>>,
     <<<<0 - 10, 3>>>>, <<<<0 - 10, 0>>>>, <<<<10, 7>>, <<0, 0>>>>,
     <<<<5, 0 - 2>>>>, <<<<70, 200>>, <<0 - 70, 4>>>>}

\* The file continues with a quotes record and the caller reads it.
ReadQuotesData(pairs) ==
    /\ calls < MaxCalls
    /\ \E out \in {read_quotes_data([self EXCEPT !.fileobj = @ \o QuotesRecord(pairs)],
                                     heap)} :
           /\ self' = out.obj
           /\ heap' = out.heap
           /\ exc' = out.exc
           /\ ret' = [op |-> "read_quotes_data", val |-> out.ret]
           /\ held' = IF out.exc = "none"
                      THEN held \cup {<<out.ret, out.heap[out.ret]>>}
                      ELSE held
    /\ fed' = Append(fed, pairs)
    /\ calls' = calls + 1
    /\ UNCHANGED <<file, log, py3, emitted>>

\* SpecQuotes: the file has been opened and its stream header read; it goes on
\* with quotes records, read one per call.
NextQuotes == \E pairs \in QuotePairs : ReadQuotesData(pairs)

SpecQuotes == InitOrdLog /\ [][NextQuotes]_vars

----------------------------------------------------------------------------
(* The running dict of the quotes stream *)

RECURSIVE Flatten(_)
Flatten(seqs) == IF seqs = <<>> THEN <<>> ELSE Head(seqs) \o Flatten(Tail(seqs))

\* the pairs <<price delta, volume>> read so far, record after record
Writes == Flatten(fed)

\* the price of write i: the deltas add up from 0
RECURSIVE PriceAt(_, _)
PriceAt(w, i) == IF i = 0 THEN 0 ELSE w[i][1] + PriceAt(w, i - 1)

\* the volume written last for price among the first n writes, 0 if none was
VolumeAt(w, n, price) ==
    LET at == {i \in 1..n : PriceAt(w, i) = price}
    IN  IF at = {} THEN 0
        ELSE w[CHOOSE i \in at : \A j \in at : j <= i][2]

\* every price mapped to the non-zero volume written last for it
LastVolumes(w) ==
    [price \in {q \in {PriceAt(w, i) : i \in 1..Len(w)} : VolumeAt(w, Len(w), q) # 0}
        |-> VolumeAt(w, Len(w), price)]

\* every write of volume 0 is to a price that is present when it is made
DeletesPresent(w) ==
    \A i \in 1..Len(w) : (w[i][2] = 0) => VolumeAt(w, i - 1, PriceAt(w, i)) # 0

QuotesRead == ret.op = "read_quotes_data"

\* C11: over any sequence of quotes records whose volume=0 pairs target
\* prices that are present, the call returns, and the snapshot returned maps
\* each price to the non-zero volume written last for it and omits the prices
\* whose last write was volume 0 (a later non-zero write brings a price
\* back); prices add up by delta across records; a snapshot returned keeps
\* its contents over later calls.
C11_QuotesRunningDict ==
    /\ (QuotesRead /\ DeletesPresent(Writes))
          => /\ exc = "none"
             /\ heap[ret.val] = LastVolumes(Writes)
             /\ self.quotes_last_price = PriceAt(Writes, Len(Writes))
    /\ \A h \in held : heap[h[1]] = h[2]

\* price 10 written, deleted by a second record and written again by a third:
\* the three snapshots returned are {10: 7}, {} and {10: 9}
C11_Witness ==
    /\ QuotesRead
    /\ exc = "none"
    /\ fed = << <<<<10, 7>>>>, <<<<0, 0>>>>, <<<<0, 9>>>> >>
    /\ heap[ret.val] = [price \in {10} |-> 9]
    /\ \E h \in held : h[2] = [price \in {10} |-> 7]
    /\ \E h \in held : h[2] = EmptyDict

\* all the records but the last
Earlier(seqs) == SubSeq(seqs, 1, Len(seqs) - 1)

\* C12: a quotes record with a pair (price, volume=0) for a price the running
\* dict does not hold completes without error, leaves the price absent and
\* returns the snapshot of the other entries; scenario S6: from last_price 0
\* and an empty dict, count=2 with (+10, 7), (+5, 0) returns {10: 7}.
C12_DeleteOfAbsentPrice ==
    /\ ( /\ QuotesRead
         /\ fed # <<>>
         /\ DeletesPresent(Flatten(Earlier(fed)))
         /\ ~DeletesPresent(Writes) )
          => /\ exc = "none"
             /\ heap[ret.val] = LastVolumes(Writes)
    /\ (QuotesRead /\ fed = << <<<<10, 7>>, <<5, 0>>>> >>)
          => /\ exc = "none"
             /\ heap[ret.val] = [price \in {10} |-> 7]

----------------------------------------------------------------------------
(* read_deals_data (lines 437-470) *)

\* DealEntry.DataFlag
DEALS_TYPE == 3
DEALS_DATETIME == 4
DEALS_ID == 8
DEALS_ORDER_ID == 16
DEALS_PRICE == 32
DEALS_VOLUME == 64
DEALS_OI == 128

\* self.<attr> = <read>, for an attribute the instance may not have yet
SetNewAttr(st, attr, read_result) ==
    With(read_result, LAMBDA r :
        IF r.exc # "none" THEN Propagate(st, r)
        ELSE [st EXCEPT !.obj = Assign([st.obj EXCEPT !.fileobj = r.rest], attr, r.val)])

\* statement i of the method, run in st
deals_statement(i, st) ==
    LET f  == st.obj.fileobj
        av == st.loc.availability_mask
    IN  CASE i = 1 -> SetLocal(st, "availability_mask", read_byte(f))
          [] i = 2 -> LetLocal(st, "deal_type", BitAnd(av, DEALS_TYPE))
          [] i = 3 -> IF is_available(av, DEALS_DATETIME)
                      THEN SetAttr(st, "deals_last_milliseconds",
                               MsOf(read_growing_datetime(f, st.obj.deals_last_milliseconds)))
                      ELSE st
          [] i = 4 -> IF is_available(av, DEALS_ID)
                      THEN SetAttr(st, "deals_last_id", read_growing(f, st.obj.deals_last_id))
                      ELSE st
          [] i = 5 -> IF is_available(av, DEALS_ORDER_ID)
                      THEN SetAttr(st, "deals_last_order_id",
                               read_relative(f, st.obj.deals_last_order_id))
                      ELSE st
          [] i = 6 -> IF is_available(av, DEALS_PRICE)
                      THEN SetAttr(st, "deals_last_price",
                               read_relative(f, st.obj.deals_last_price))
                      ELSE st
          [] i = 7 -> IF is_available(av, DEALS_VOLUME)
                      THEN SetNewAttr(st, "deals_last_volume", read_leb128(f))
                      ELSE st
          [] i = 8 -> IF is_available(av, DEALS_OI)
                      THEN SetAttr(st, "deals_last_oi", read_relative(f, st.obj.deals_last_oi))
                      ELSE st
          [] i = 9 -> LetLocal(st, "deal_timestamp",
                               to_datetime(st.obj.deals_last_milliseconds))
          \* line 470 reads self.deals_last_volume, which the class does not set
          [] i = 10 -> IF "deals_last_volume" \in DOMAIN st.obj THEN st
                       ELSE [st EXCEPT !.exc = "AttributeError"]

RECURSIVE deals_statements(_, _)
deals_statements(s, n) ==
    IF n = 0 THEN Enter(s, [availability_mask |-> 0, deal_type |-> 0, deal_timestamp |-> 0])
    ELSE With(deals_statements(s, n - 1), LAMBDA st :
             IF st.exc # "none" THEN st ELSE deals_statement(n, st))

\* the whole method: [obj, exc, ret, loc]; ret is the DealEntry returned
read_deals_data(s) ==
    With(deals_statements(s, 10), LAMBDA st :
        IF st.exc # "none" THEN [obj |-> st.obj, exc |-> st.exc, ret |-> <<>>, loc |-> st.loc]
        ELSE [obj |-> st.obj, exc |-> "none", loc |-> st.loc,
              ret |-> [type |-> st.loc.deal_type, id |-> st.obj.deals_last_id,
                       timestamp |-> st.loc.deal_timestamp,
                       price |-> st.obj.deals_last_price,
                       volume |-> st.obj.deals_last_volume,
                       oi |-> st.obj.deals_last_oi,
                       order_id |-> st.obj.deals_last_order_id]])

\* the deals records the model reads: the mask and the fields it announces,
\* in the order datetime, id, order id, price, volume, oi
DealsRecords ==
    {<<1>>, <<0>>,
     <<DEALS_VOLUME + 2, 7>>,
     <<DEALS_VOLUME + 3, 0>>,
     <<DEALS_DATETIME + DEALS_ID + DEALS_ORDER_ID + DEALS_PRICE + DEALS_VOLUME
         + DEALS_OI + 1, 5, 1, 3, 228, 0, 9, 2>>,
     <<DEALS_DATETIME + DEALS_ID + DEALS_ORDER_ID + DEALS_PRICE + DEALS_OI + 2,
       5, 1, 3, 228, 0, 2>>,
     <<DEALS_ID + DEALS_PRICE + 1, 2, 126>>,
     <<DEALS_DATETIME + 2, 20>>,
     <<DEALS_ORDER_ID + DEALS_OI, 125, 4>>}

\* The file continues with a deals record and the caller reads it.
ReadDealsData(buf) ==
    /\ calls < MaxCalls
    /\ \E out \in {read_deals_data([self EXCEPT !.fileobj = @ \o buf])} :
           /\ self' = out.obj
           /\ exc' = out.exc
           /\ ret' = [op |-> "read_deals_data", val |-> out.ret,
                      availability_mask |-> out.loc.availability_mask]
    /\ calls' = calls + 1
    /\ UNCHANGED <<file, log, heap, py3, held, emitted, fed>>

\* SpecDealsStream: the file has been opened and its stream header read; it
\* goes on with deals records, read one per call.
NextDealsStream == \E buf \in DealsRecords : ReadDealsData(buf)

SpecDealsStream == InitOrdLog /\ [][NextDealsStream]_vars

\* the value an instance holds for an attribute, 0 for one it does not have
LastOr0(obj, attr) == IF attr \in DOMAIN obj THEN obj[attr] ELSE 0

\* the field of the DealEntry and the last value behind each availability bit
DealsFieldOf ==
    {<<DEALS_DATETIME, "timestamp", "deals_last_milliseconds">>,
     <<DEALS_ID, "id", "deals_last_id">>,
     <<DEALS_ORDER_ID, "order_id", "deals_last_order_id">>,
     <<DEALS_PRICE, "price", "deals_last_price">>,
     <<DEALS_VOLUME, "volume", "deals_last_volume">>,
     <<DEALS_OI, "oi", "deals_last_oi">>}

\* C13: the last values of the deals stream are zero at open for every
\* field: a deals record whose mask omits a field completes without error and
\* returns for it the value decoded last, 0 if no record since open carried
\* it (a first record without the VOLUME bit returns volume 0); the type is
\* mask & 3.
C13_DealsLastValues ==
    [][ (calls' = calls + 1 /\ ret'.op = "read_deals_data")
          => /\ exc' = "none"
             /\ ret'.val.type = ret'.availability_mask % 4
             /\ \A v \in DealsFieldOf :
                    ~HasFlag(ret'.availability_mask, v[1])
                      => ret'.val[v[2]] = IF v[2] = "timestamp"
                                         THEN 1000 * LastOr0(self, v[3])
                                         ELSE LastOr0(self, v[3]) ]_vars

----------------------------------------------------------------------------
(* The integer codec on encoded values *)

\* the signed values encoded: every one-byte value, and the ends of the
\* ranges of two, three and four bytes
LebValues ==
    ((0 - 70)..70)
    \cup {127, 128, 0 - 127, 0 - 128, 0 - 129, 8191, 8192, 0 - 8192, 0 - 8193,
          1048575, 1048576, 0 - 1048576, 0 - 1048577, 134217727, 0 - 134217728}

\* the unsigned values encoded, the escape of read_growing and its neighbours
\* among them
UlebValues ==
    (0..20) \cup {63, 64, 127, 128, 129, 300, 16383, 16384, 2097151, 2097152,
                  GrowingEscape - 1, GrowingEscape, GrowingEscape + 1}

\* what follows the encoded value in the file
After == {<<>>, <<127>>}

\* the position of an instance in a file: the bytes from there on (gz), what
\* they encode and what follows it
CodecInputs ==
    {[form |-> "leb128", value |-> v, gz |-> Leb128Bytes(v) \o t, after |-> t] :
        v \in LebValues, t \in After}
    \cup
    {[form |-> "leb128", value |-> e[2], gz |-> e[1] \o t, after |-> t] :
        e \in {<<<<255, 127>>, 0 - 1>>, <<<<255, 0>>, 127>>, <<<<128, 64>>, 0 - 8192>>},
        t \in After}
    \cup
    {[form |-> "uleb128", value |-> v, gz |-> Uleb128Bytes(v) \o t, after |-> t] :
        v \in UlebValues, t \in After}
    \cup
    {[form |-> "escape", value |-> v, gz |-> Uleb128Bytes(GrowingEscape)
                                              \o Leb128Bytes(v) \o t, after |-> t] :
        v \in {0 - 1, 0, 5, 0 - 64, 0 - 65, 200, 0 - 1000}, t \in After}

\* the last values read_growing is called with
Lasts == {0, 1000}

\* a call of read_growing(last_value)
ReadGrowing ==
    /\ CanCall
    /\ \E last_value \in Lasts :
          \E r \in {read_growing(self.fileobj, last_value)} :
             /\ self' = [self EXCEPT !.fileobj = r.rest]
             /\ exc' = r.exc
             /\ ret' = [op |-> "read_growing", before |-> self.fileobj,
                        last_value |-> last_value, val |-> r.val]
             /\ log' = Append(log, <<"read_growing", r.exc>>)
    /\ calls' = calls + 1
    /\ UNCHANGED <<file, heap, py3, held, emitted, fed>>

\* SpecCodec: an open instance stands before an encoded value of CodecInputs
\* and the caller reads with read_leb128, read_uleb128 and read_growing.
InitCodec ==
    /\ file \in CodecInputs
    /\ py3 = TRUE
    /\ \E c \in {qsh_init(OneStreamFile)} :
         \E h \in {read_stream_header(c.obj)} :
            /\ self = [h.obj EXCEPT !.fileobj = file.gz]
            /\ heap = c.heap
    /\ log = <<<<"open", "none">>, <<"read_stream_header", "none">>>>
    /\ exc = "none"
    /\ ret = [op |-> "read_stream_header"]
    /\ calls = 0
    /\ held = {}
    /\ emitted = <<>>
    /\ fed = <<>>

NextCodec ==
    \/ ReadLeb128
    \/ ReadUleb128
    \/ ReadGrowing

SpecCodec == InitCodec /\ [][NextCodec]_vars

\* the first read made at the position drawn
FirstRead(op) == calls = 1 /\ ret.op = op

\* C14: read_growing(last) on a ULEB128 value of exactly 0x0FFFFFFF returns
\* last plus the signed LEB128 value that follows (S3: last 1000 and bytes
\* FF FF FF 7F, 7F give 999); on every other ULEB128 value d it returns
\* last + d and consumes no byte after it.
C14_GrowingSentinel ==
    /\ (FirstRead("read_growing") /\ file.form = "escape")
          => /\ exc = "none"
             /\ ret.val = ret.last_value + file.value
             /\ self.fileobj = file.after
    /\ (FirstRead("read_growing") /\ file.form = "uleb128"
           /\ file.value # GrowingEscape)
          => /\ exc = "none"
             /\ ret.val = ret.last_value + file.value
             /\ self.fileobj = file.after
    /\ (FirstRead("read_growing") /\ ret.last_value = 1000
           /\ ret.before = <<255, 255, 255, 127, 127>>)
          => ret.val = 999

\* scenario S3, with a byte after the escaped value left unread
C14_Witness ==
    /\ FirstRead("read_growing")
    /\ ret.last_value = 1000
    /\ ret.before = <<255, 255, 255, 127, 127, 127>>
    /\ ret.val = 999
    /\ self.fileobj = <<127>>

\* C16: read_leb128 on the signed LEB128 bytes of a value returns the value
\* and consumes those bytes and no more (a last byte with bit 0x40 gives a
\* negative value: 40 -> -64, 7F -> -1, FF 7F -> -1, and FF 00 -> 127);
\* read_uleb128 on the ULEB128 bytes of a non-negative value returns the value
\* (80 01 -> 128).
C16_Leb128RoundTrip ==
    /\ (FirstRead("read_leb128") /\ file.form = "leb128")
          => /\ exc = "none"
             /\ ret.val = file.value
             /\ self.fileobj = file.after
    /\ (FirstRead("read_uleb128") /\ file.form = "uleb128")
          => /\ exc = "none"
             /\ ret.val = file.value
             /\ self.fileobj = file.after
    /\ \A e \in {<<<<64>>, 0 - 64>>, <<<<127>>, 0 - 1>>, <<<<255, 127>>, 0 - 1>>,
                  <<<<255, 0>>, 127>>} :
          (FirstRead("read_leb128") /\ ret.before = e[1]) => ret.val = e[2]
    /\ (FirstRead("read_uleb128") /\ ret.before = <<128, 1>>) => ret.val = 128

\* the most negative value of three bytes, read with a byte left after it
C16_Witness ==
    /\ FirstRead("read_leb128")
    /\ ret.before = <<128, 128, 64, 127>>
    /\ ret.val = 0 - 1048576
    /\ self.fileobj = <<127>>

----------------------------------------------------------------------------
(* Frame headers one after another *)

\* a one-stream ORD_LOG file created at tick 20000 (2 ms)
FramesFile == MkFile(<<1, 65>>, Tick20000, 1, <<ORD_LOG, 1, 88>>, <<>>)

\* the growing bytes of a delta: plain ULEB128, or the escape and signed LEB128
GrowingBytes(d) ==
    IF d[1] = "plain" THEN Uleb128Bytes(d[2])
    ELSE Uleb128Bytes(GrowingEscape) \o Leb128Bytes(d[2])

\* the deltas of the frames read, in milliseconds
FrameDeltas ==
    {<<"plain", 0>>, <<"plain", 1>>, <<"plain", 5>>, <<"plain", 300>>,
     <<"escape", 3>>, <<"escape", 0 - 1>>, <<"escape", 0 - 5>>}

\* The file continues with a frame header and the caller reads it.
ReadNextFrameHeader(d) ==
    /\ calls < MaxCalls
    /\ \E st \in {read_frame_header([self EXCEPT !.fileobj = @ \o GrowingBytes(d)])} :
           /\ self' = st.obj
           /\ exc' = st.exc
           /\ ret' = [op |-> "read_frame_header", before |-> self.fileobj \o GrowingBytes(d),
                      val |-> st.loc]
           /\ log' = Append(log, <<"read_frame_header", st.exc>>)
    /\ fed' = Append(fed, d[2])
    /\ calls' = calls + 1
    /\ UNCHANGED <<file, heap, py3, held, emitted>>

\* SpecFrames: FramesFile has been opened and its stream header read; it goes
\* on with frame headers, read one per call.
InitFrames ==
    /\ file = FramesFile
    /\ py3 = TRUE
    /\ \E c \in {qsh_init(FramesFile)} :
         \E h \in {read_stream_header(c.obj)} :
            /\ self = h.obj
            /\ heap = c.heap
    /\ log = <<<<"open", "none">>, <<"read_stream_header", "none">>>>
    /\ exc = "none"
    /\ ret = [op |-> "read_stream_header"]
    /\ calls = 0
    /\ held = {}
    /\ emitted = <<>>
    /\ fed = <<>>

NextFrames == \E d \in FrameDeltas : ReadNextFrameHeader(d)

SpecFrames == InitFrames /\ [][NextFrames]_vars

RECURSIVE SumOf(_)
SumOf(seq) == IF seq = <<>> THEN 0 ELSE Head(seq) + SumOf(Tail(seq))

\* every delta read so far is non-negative
DeltasNonNegative == \A i \in 1..Len(fed) : fed[i] >= 0

----------------------------------------------------------------------------
(* Order ids of the ord-log stream (lines 332-338) *)

\* an add, an add that ends a transaction, a cancel and a fill
OrderIdActions ==
    {ADD + BUY, ADD + SELL + END_OF_TRANSACTION, CANCELED + BUY, FILL + SELL}

\* a record of amount 5: without the ORDER_ID bit, or with an order id delta
OrderIdInputs ==
    [actions : OrderIdActions, has_id : {FALSE}, delta : {0}]
    \cup [actions : OrderIdActions, has_id : {TRUE}, delta : {0, 3, 0 - 2}]

\* the delta of an add is written as a growing value, any other as signed LEB128
OrderIdBytes(r) ==
    IF ~r.has_id THEN <<>>
    ELSE IF HasFlag(r.actions, ADD)
    THEN GrowingBytes(<<IF r.delta >= 0 THEN "plain" ELSE "escape", r.delta>>)
    ELSE Leb128Bytes(r.delta)

OrderIdRecord(r) ==
    Record(AMOUNT + (IF r.has_id THEN ORDER_ID ELSE 0), r.actions,
           OrderIdBytes(r) \o <<5>>)

\* The file continues with the record of r and the caller reads it.
ReadOrderIdRecord(r) ==
    /\ OrdLogCall(OrderIdRecord(r))
    /\ fed' = Append(fed, r)

NextOrderId == \E r \in OrderIdInputs : ReadOrderIdRecord(r)

SpecOrderId == InitOrdLog /\ [][NextOrderId]_vars

\* the record the step read
Fed == fed[Len(fed)]

\* C17: a record with the ORDER_ID bit and without ADD exports last_order_id
\* plus its signed delta and leaves last_order_id as it was; with ORDER_ID and
\* ADD, last_order_id advances by the growing delta and is exported; without
\* the ORDER_ID bit nothing is read and last_order_id is exported.
C17_OrderIdHandling ==
    [][ OrdLogStep =>
          /\ self'.fileobj = <<>>
          /\ Entry'.amount = 5
          /\ HasFlag(Mask', ADD) = HasFlag(Fed'.actions, ADD)
          /\ HasFlag(ret'.availability_mask, ORDER_ID) = Fed'.has_id
          /\ (Fed'.has_id /\ ~HasFlag(Mask', ADD))
                => /\ Entry'.exchange_order_id = self.last_order_id + Fed'.delta
                   /\ self'.last_order_id = self.last_order_id
          /\ (Fed'.has_id /\ HasFlag(Mask', ADD))
                => /\ self'.last_order_id = self.last_order_id + Fed'.delta
                   /\ Entry'.exchange_order_id = self'.last_order_id
          /\ ~Fed'.has_id
                => /\ Entry'.exchange_order_id = self.last_order_id
                   /\ self'.last_order_id = self.last_order_id ]_vars

\* an add advanced the id to 3; a cancel 2 below it exported 1 and left 3
\* behind; a record without the bit exports 3
C17_Witness ==
    /\ Returned
    /\ Len(fed) = 3
    /\ fed[1] = [actions |-> ADD + BUY, has_id |-> TRUE, delta |-> 3]
    /\ fed[2] = [actions |-> CANCELED + BUY, has_id |-> TRUE, delta |-> 0 - 2]
    /\ ~fed[3].has_id
    /\ self.last_order_id = 3
    /\ Entry.exchange_order_id = 3

----------------------------------------------------------------------------
(* read_auxinfo_data (lines 483-517) *)

AUXINFO_DATETIME == 1
AUXINFO_ASK_TOTAL == 2
AUXINFO_BID_TOTAL == 4
AUXINFO_OI == 8
AUXINFO_PRICE == 16
AUXINFO_SESSION_INFO == 32
AUXINFO_RATE == 64
AUXINFO_MESSAGE == 128

\* the statements of the method on st = [obj, exc, loc]
auxinfo_statement(i, st) ==
    LET f  == st.obj.fileobj
        av == st.loc.availability_mask
    IN  CASE i = 1 -> SetLocal(st, "availability_mask", read_byte(f))
          [] i = 2 -> IF is_available(av, AUXINFO_DATETIME)
                      THEN SetAttr(st, "auxinfo_last_milliseconds",
                               MsOf(read_growing_datetime(f,
                                        st.obj.auxinfo_last_milliseconds)))
                      ELSE st
          [] i = 3 -> IF is_available(av, AUXINFO_ASK_TOTAL)
                      THEN SetAttr(st, "auxinfo_last_ask_total",
                               read_relative(f, st.obj.auxinfo_last_ask_total))
                      ELSE st
          [] i = 4 -> IF is_available(av, AUXINFO_BID_TOTAL)
                      THEN SetAttr(st, "auxinfo_last_bid_total",
                               read_relative(f, st.obj.auxinfo_last_bid_total))
                      ELSE st
          [] i = 5 -> IF is_available(av, AUXINFO_OI)
                      THEN SetAttr(st, "auxinfo_last_oi",
                               read_relative(f, st.obj.auxinfo_last_oi))
                      ELSE st
          [] i = 6 -> IF is_available(av, AUXINFO_PRICE)
                      THEN SetAttr(st, "auxinfo_last_price",
                               read_relative(f, st.obj.auxinfo_last_price))
                      ELSE st
          [] i = 7 -> IF is_available(av, AUXINFO_SESSION_INFO)
                      THEN SetAttr(st, "auxinfo_last_hi_limit", read_leb128(f))
                      ELSE st
          [] i = 8 -> IF is_available(av, AUXINFO_SESSION_INFO)
                      THEN SetAttr(st, "auxinfo_last_low_limit", read_leb128(f))
                      ELSE st
          [] i = 9 -> IF is_available(av, AUXINFO_SESSION_INFO)
                      THEN SetAttr(st, "auxinfo_last_deposit", read_double(f))
                      ELSE st
          [] i = 10 -> IF is_available(av, AUXINFO_RATE)
                       THEN SetAttr(st, "auxinfo_last_rate", read_double(f))
                       ELSE st
          [] i = 11 -> IF is_available(av, AUXINFO_MESSAGE)
                       THEN SetLocal(st, "message", read_string(f))
                       ELSE LetLocal(st, "message", <<>>)
          [] i = 12 -> LetLocal(st, "timestamp",
                                to_datetime(st.obj.auxinfo_last_milliseconds))

RECURSIVE auxinfo_statements(_, _)
auxinfo_statements(s, n) ==
    IF n = 0 THEN Enter(s, [availability_mask |-> 0, message |-> <<>>, timestamp |-> 0])
    ELSE With(auxinfo_statements(s, n - 1), LAMBDA st :
             IF st.exc # "none" THEN st ELSE auxinfo_statement(n, st))

\* the whole method: [obj, exc, ret]; ret is <<the AuxInfoEntry returned>>
read_auxinfo_data(s) ==
    With(auxinfo_statements(s, 12), LAMBDA st :
        IF st.exc # "none" THEN [obj |-> st.obj, exc |-> st.exc, ret |-> <<>>]
        ELSE [obj |-> st.obj, exc |-> "none",
              ret |-> <<[timestamp |-> st.loc.timestamp,
                         price |-> st.obj.auxinfo_last_price,
                         ask_total |-> st.obj.auxinfo_last_ask_total,
                         bid_total |-> st.obj.auxinfo_last_bid_total,
                         oi |-> st.obj.auxinfo_last_oi,
                         hi_limit |-> st.obj.auxinfo_last_hi_limit,
                         low_limit |-> st.obj.auxinfo_last_low_limit,
                         deposit |-> st.obj.auxinfo_last_deposit,
                         rate |-> st.obj.auxinfo_last_rate,
                         message |-> st.loc.message]>>])

----------------------------------------------------------------------------
(* read_own_orders_data (lines 519-538) *)

OWN_ORDER_DROP_ALL == 1
OWN_ORDER_ACTIVE == 2
OWN_ORDER_STOP == 8

OWN_ORDER_TYPE_NONE == 0
OWN_ORDER_TYPE_REGULAR == 1
OWN_ORDER_TYPE_STOP == 2

\* the reads of lines 534-536 on st = [obj, exc, loc]
own_order_statement(i, st) ==
    CASE i = 1 -> SetLocal(st, "order_id", read_leb128(st.obj.fileobj))
      [] i = 2 -> SetLocal(st, "order_price", read_leb128(st.obj.fileobj))
      [] i = 3 -> SetLocal(st, "amount_rest", read_leb128(st.obj.fileobj))

RECURSIVE own_order_statements(_, _)
own_order_statements(st, n) ==
    IF n = 0 THEN st
    ELSE With(own_order_statements(st, n - 1), LAMBDA t :
             IF t.exc # "none" THEN t ELSE own_order_statement(n, t))

\* the whole method: [obj, exc, ret]; ret is <<>> for None, else <<the OwnOrder>>
read_own_orders_data(s) ==
    With(SetLocal(Enter(s, [availability_mask |-> 0, order_id |-> 0, order_price |-> 0,
                            amount_rest |-> 0]),
                  "availability_mask", read_byte(s.fileobj)), LAMBDA st :
        IF st.exc # "none" THEN [obj |-> st.obj, exc |-> st.exc, ret |-> <<>>]
        ELSE IF is_available(st.loc.availability_mask, OWN_ORDER_DROP_ALL)
        THEN [obj |-> st.obj, exc |-> "none", ret |-> <<>>]
        ELSE With(own_order_statements(st, 3), LAMBDA t :
            IF t.exc # "none" THEN [obj |-> t.obj, exc |-> t.exc, ret |-> <<>>]
            ELSE [obj |-> t.obj, exc |-> "none",
                  ret |-> <<[type |-> IF is_available(t.loc.availability_mask,
                                                      OWN_ORDER_ACTIVE)
                                      THEN IF is_available(t.loc.availability_mask,
                                                           OWN_ORDER_STOP)
                                           THEN OWN_ORDER_TYPE_STOP
                                           ELSE OWN_ORDER_TYPE_REGULAR
                                      ELSE OWN_ORDER_TYPE_NONE,
                             id |-> t.loc.order_id, price |-> t.loc.order_price,
                             amount_rest |-> t.loc.amount_rest]>>]))

----------------------------------------------------------------------------
(* read_own_trades_data (lines 546-557) *)

\* the statements with line 551 storing into last_order_id
own_trades_statement_shared_id(i, st) ==
    LET f == st.obj.fileobj
    IN  CASE i = 1 -> SetAttr(st, "own_trades_last_milliseconds",
                          MsOf(read_growing_datetime(f,
                                   st.obj.own_trades_last_milliseconds)))
          [] i = 2 -> SetAttr(st, "own_trades_last_trade_id",
                          read_relative(f, st.obj.own_trades_last_trade_id))
          [] i = 3 -> SetAttr(st, "last_order_id",
                          read_relative(f, st.obj.last_order_id))
          [] i = 4 -> SetAttr(st, "own_trades_last_price",
                          read_relative(f, st.obj.own_trades_last_price))
          [] i = 5 -> SetLocal(st, "volume", read_leb128(f))
          [] i = 6 -> LetLocal(st, "timestamp",
                               to_datetime(st.obj.own_trades_last_milliseconds))

\* the statements of the method on st = [obj, exc, loc]
own_trades_statement(i, st) ==
    LET f == st.obj.fileobj
    IN  CASE i = 1 -> SetAttr(st, "own_trades_last_milliseconds",
                          MsOf(read_growing_datetime(f,
                                   st.obj.own_trades_last_milliseconds)))
          [] i = 2 -> SetAttr(st, "own_trades_last_trade_id",
                          read_relative(f, st.obj.own_trades_last_trade_id))
          [] i = 3 -> SetAttr(st, "own_trades_last_order_id",
                          read_relative(f, st.obj.own_trades_last_order_id))
          [] i = 4 -> SetAttr(st, "own_trades_last_price",
                          read_relative(f, st.obj.own_trades_last_price))
          [] i = 5 -> SetLocal(st, "volume", read_leb128(f))
          [] i = 6 -> LetLocal(st, "timestamp",
                               to_datetime(st.obj.own_trades_last_milliseconds))

RECURSIVE own_trades_statements(_, _)
own_trades_statements(s, n) ==
    IF n = 0 THEN Enter(s, [volume |-> 0, timestamp |-> 0])
    ELSE With(own_trades_statements(s, n - 1), LAMBDA st :
             IF st.exc # "none" THEN st ELSE own_trades_statement(n, st))

\* the whole method: [obj, exc, ret]; ret is <<the OwnTrade returned>>
read_own_trades_data(s) ==
    With(own_trades_statements(s, 6), LAMBDA st :
        IF st.exc # "none" THEN [obj |-> st.obj, exc |-> st.exc, ret |-> <<>>]
        ELSE [obj |-> st.obj, exc |-> "none",
              ret |-> <<[timestamp |-> st.loc.timestamp,
                         trade_id |-> st.obj.own_trades_last_trade_id,
                         order_id |-> st.obj.own_trades_last_order_id,
                         price |-> st.obj.own_trades_last_price,
                         volume |-> st.loc.volume]>>])

----------------------------------------------------------------------------
(* read_message_data (lines 414-420) *)

message_statement(i, st) ==
    CASE i = 1 -> SetLocal(st, "message_timestamp", read_datetime(st.obj.fileobj))
      [] i = 2 -> SetLocal(st, "message_type", read_byte(st.obj.fileobj))
      [] i = 3 -> SetLocal(st, "message_text", read_string(st.obj.fileobj))

RECURSIVE message_statements(_, _)
message_statements(s, n) ==
    IF n = 0 THEN Enter(s, [message_timestamp |-> 0, message_type |-> 0,
                            message_text |-> <<>>])
    ELSE With(message_statements(s, n - 1), LAMBDA st :
             IF st.exc # "none" THEN st ELSE message_statement(n, st))

\* the whole method: [obj, exc, ret]; ret is <<the Message returned>>
read_message_data(s) ==
    With(message_statements(s, 3), LAMBDA st :
        IF st.exc # "none" THEN [obj |-> st.obj, exc |-> st.exc, ret |-> <<>>]
        ELSE [obj |-> st.obj, exc |-> "none",
              ret |-> <<[timestamp |-> st.loc.message_timestamp,
                         type |-> st.loc.message_type,
                         text |-> st.loc.message_text]>>])

----------------------------------------------------------------------------
(* The readers of all stream types on one instance *)

\* the double 1.0 as struct packs it
DoubleOne == <<0, 0, 0, 0, 0, 0, 240, 63>>
\* the string "Hi" with its length
StringHi == <<2, 72, 105>>

\* an add of 5 at +100 with order id +3 that ends a transaction; a fill of 5
\* at +100 with deal id 1 that ends one; a flow start
StreamsOrdLogRecords ==
    {Record(ORDER_ID + ORDER_PRICE + AMOUNT, ADD + BUY + END_OF_TRANSACTION,
            <<3, 228, 0, 5>>),
     Record(ORDER_ID + ORDER_PRICE + AMOUNT + DEAL_ID + DEAL_PRICE + OI_AFTER_DEAL,
            FILL + SELL + END_OF_TRANSACTION, <<1, 228, 0, 5, 1, 7, 3>>),
     Record(AMOUNT, FLOW_START, <<0>>)}

\* a deal with every field, and one without volume
StreamsDealsRecords ==
    {<<DEALS_DATETIME + DEALS_ID + DEALS_ORDER_ID + DEALS_PRICE + DEALS_VOLUME
         + DEALS_OI + 1, 5, 1, 3, 228, 0, 9, 2>>,
     <<DEALS_ID + DEALS_PRICE + 1, 2, 126>>}

\* a quote set, and a delete of a price that may be absent
StreamsQuotePairs == {<<<<10, 7>>>>, <<<<5, 0>>>>}

\* aux-info with every field, with none, and with price and message
AuxInfoRecords ==
    {<<255, 5, 3, 4, 2, 228, 0, 9, 1>> \o DoubleOne \o DoubleOne \o StringHi,
     <<0>>,
     <<AUXINFO_PRICE + AUXINFO_MESSAGE, 126>> \o StringHi}

\* own trades: 5 ms on, trade id +1, order id +3, price +100, volume 7; and
\* one that changes nothing
OwnTradesRecords == {<<5, 1, 3, 228, 0, 7>>, <<0, 0, 0, 0, 0>>}

\* own orders: drop all; an active stop order; an inactive order
OwnOrdersRecords ==
    {<<OWN_ORDER_DROP_ALL>>, <<OWN_ORDER_ACTIVE + OWN_ORDER_STOP, 1, 228, 0, 5>>,
     <<0, 2, 228, 0, 3>>}

\* a message of type 1 at tick 20000 with the text "Hi"
MessageRecords == {<<32, 78, 0, 0, 0, 0, 0, 0, 1>> \o StringHi}

\* a reader that touches no dict: the file continues with buf and is read
StreamCall(op, out) ==
    /\ self' = out.obj
    /\ exc' = out.exc
    /\ ret' = [op |-> op, val |-> out.ret]
    /\ calls' = calls + 1
    /\ UNCHANGED <<file, log, heap, py3, held, emitted, fed>>

ReadAuxinfoData(buf) ==
    /\ calls < MaxCalls
    /\ \E out \in {read_auxinfo_data([self EXCEPT !.fileobj = @ \o buf])} :
           StreamCall("read_auxinfo_data", out)

ReadOwnOrdersData(buf) ==
    /\ calls < MaxCalls
    /\ \E out \in {read_own_orders_data([self EXCEPT !.fileobj = @ \o buf])} :
           StreamCall("read_own_orders_data", out)

ReadOwnTradesData(buf) ==
    /\ calls < MaxCalls
    /\ \E out \in {read_own_trades_data([self EXCEPT !.fileobj = @ \o buf])} :
           StreamCall("read_own_trades_data", out)

ReadMessageData(buf) ==
    /\ calls < MaxCalls
    /\ \E out \in {read_message_data([self EXCEPT !.fileobj = @ \o buf])} :
           StreamCall("read_message_data", out)

\* SpecStreams: the file has been opened and its stream header read; it goes
\* on with records of every stream type, each read by the reader of its type.
NextStreams ==
    \/ \E buf \in StreamsOrdLogRecords : ReadOrdLogData(buf)
    \/ \E buf \in StreamsDealsRecords : ReadDealsData(buf)
    \/ \E pairs \in StreamsQuotePairs : ReadQuotesData(pairs)
    \/ \E buf \in AuxInfoRecords : ReadAuxinfoData(buf)
    \/ \E buf \in OwnOrdersRecords : ReadOwnOrdersData(buf)
    \/ \E buf \in OwnTradesRecords : ReadOwnTradesData(buf)
    \/ \E buf \in MessageRecords : ReadMessageData(buf)

SpecStreams == InitOrdLog /\ [][NextStreams]_vars

----------------------------------------------------------------------------
(* The state of each stream type *)

\* the attributes of names an instance has, with their values
Attrs(names) == [a \in names \cap DOMAIN self |-> self[a]]

\* the book, its snapshot, every last_* value and last_pushed_deal_id
OrdLogState ==
    [attrs |-> Attrs({"quotes", "external_quotes", "last_exchange_milliseconds",
                      "last_order_id", "last_order_price", "last_amount",
                      "last_order_amount_rest", "last_deal_id", "last_deal_price",
                      "last_oi_after_deal", "last_pushed_deal_id"}),
     quotes |-> heap[self.quotes],
     external_quotes |-> heap[self.external_quotes]]

DealsState ==
    Attrs({"deals_last_milliseconds", "deals_last_id", "deals_last_order_id",
           "deals_last_price", "deals_last_volume", "deals_last_oi"})

AuxInfoState ==
    Attrs({"auxinfo_last_milliseconds", "auxinfo_last_ask_total",
           "auxinfo_last_bid_total", "auxinfo_last_oi", "auxinfo_last_price",
           "auxinfo_last_hi_limit", "auxinfo_last_low_limit", "auxinfo_last_deposit",
           "auxinfo_last_rate"})

QuotesStreamState ==
    [attrs |-> Attrs({"quotes_last_price", "quotes_dict"}),
     quotes_dict |-> heap[self.quotes_dict]]

OwnTradesState ==
    Attrs({"own_trades_last_milliseconds", "own_trades_last_trade_id",
           "own_trades_last_order_id", "own_trades_last_price"})

\* the state of the stream types other than the one read by op
StateOutside(op) ==
    [ord_log |-> IF op = "read_ord_log_data" THEN <<>> ELSE <<OrdLogState>>,
     deals |-> IF op = "read_deals_data" THEN <<>> ELSE <<DealsState>>,
     auxinfo |-> IF op = "read_auxinfo_data" THEN <<>> ELSE <<AuxInfoState>>,
     quotes |-> IF op = "read_quotes_data" THEN <<>> ELSE <<QuotesStreamState>>,
     own_trades |-> IF op = "read_own_trades_data" THEN <<>> ELSE <<OwnTradesState>>]

StreamReaders ==
    {"read_ord_log_data", "read_deals_data", "read_auxinfo_data", "read_quotes_data",
     "read_own_trades_data", "read_own_orders_data", "read_message_data"}

\* C18: a read_<stream>_data call, returning or raising, changes only the
\* state of its own stream type: the readers of deals, aux-info, quotes, own
\* trades, own orders and messages leave the ord-log state (quotes,
\* external_quotes, every last_* value, last_pushed_deal_id) as it was, and
\* read_ord_log_data leaves the deals, aux-info, quotes-stream and own-trades
\* state as it was.
C18_StreamStateIsolation ==
    [][ \A op \in StreamReaders :
           (calls' = calls + 1 /\ ret'.op = op)
              => StateOutside(op)' = StateOutside(op) ]_vars

\* own trades were read after an ord-log record that left an order id and a
\* snapshot, and a deal was read before it
C18_Witness ==
    /\ ret.op = "read_own_trades_data"
    /\ exc = "none"
    /\ self.own_trades_last_order_id = 3
    /\ self.last_order_id = 3
    /\ heap[self.external_quotes] # EmptyDict
    /\ self.deals_last_price = 100

\* an ord-log record that derives a DealEntry and an AuxInfoEntry was read
\* after records of the aux-info and quotes streams
C18_WitnessOrdLog ==
    /\ Returned
    /\ Deal # <<>>
    /\ AuxInfo # <<>>
    /\ self.auxinfo_last_price = 100
    /\ heap[self.quotes_dict] # EmptyDict

----------------------------------------------------------------------------
(* The snapshot between the ends of transactions *)

\* C19: external_quotes is replaced only by a record that passes the book
\* condition and has END_OF_TRANSACTION; after any other record, a FLOW_START
\* that emptied the quotes map included, the third element returned is the
\* snapshot the call before returned, with the same contents (the empty dict
\* of the constructor before the first snapshot).
C19_SnapshotOnlyAtEndOfTransaction ==
    [][ OrdLogStep =>
          IF PassesBookCondition(Mask') /\ HasFlag(Mask', END_OF_TRANSACTION)
          THEN /\ ret'.val.external_quotes \notin DOMAIN heap
               /\ ExternalQuotes' = Quotes'
          ELSE /\ ret'.val.external_quotes = self.external_quotes
               /\ ExternalQuotes' = heap[self.external_quotes]
               /\ IF Returned
                  THEN /\ ret'.val.external_quotes = ret.val.external_quotes
                       /\ ExternalQuotes' = ExternalQuotes
                  ELSE ExternalQuotes' = EmptyDict ]_vars

\* a FLOW_START record emptied the quotes map and the snapshot of the call
\* before came back
C19_Witness ==
    /\ Returned
    /\ HasFlag(Mask, FLOW_START)
    /\ ~PassesBookCondition(Mask)
    /\ ret.quotes_before # EmptyDict
    /\ Quotes = EmptyDict
    /\ ExternalQuotes # EmptyDict

----------------------------------------------------------------------------
(* The deals pushed *)

\* fills of either side, of both, of none and outside the system
PushActions ==
    {FILL + BUY, FILL + SELL + END_OF_TRANSACTION, FILL + BUY + NON_SYSTEM, FILL,
     FILL + BUY + SELL}

\* fills of 5 at +100 with a deal id, deal price +7 and open interest +3; and
\* records without FILL whose DEAL_ID, DEAL_PRICE and OI_AFTER_DEAL bits
\* announce fields that are not there
PushRecords ==
    {Record(ORDER_PRICE + AMOUNT + DEAL_ID + DEAL_PRICE + OI_AFTER_DEAL, am,
            <<228, 0, 5>> \o d \o <<7, 3>>) :
        am \in PushActions, d \in DealIdBytes}
    \cup
    {Record(ORDER_PRICE + AMOUNT + DEAL_ID + DEAL_PRICE + OI_AFTER_DEAL, am,
            <<228, 0, 5>>) :
        am \in {ADD + BUY + END_OF_TRANSACTION, ADD + SELL, CANCELED + SELL}}

NextPush == \E buf \in PushRecords : ReadOrdLogData(buf)

SpecPush == InitOrdLog /\ [][NextPush]_vars

\* C20: last_pushed_deal_id is never negative; a DealEntry is returned only
\* for a record with FILL that passes the book condition, its id is
\* last_deal_id and positive and its type is SELL or BUY; a record without
\* FILL exports deal_id, deal_price and oi_after_deal 0, returns no DealEntry
\* and leaves last_pushed_deal_id as it was.
C20_DealEntryOnlyForFills ==
    /\ [](self.last_pushed_deal_id >= 0)
    /\ [][ OrdLogStep =>
             /\ Deal' # <<>>
                   => /\ HasFlag(Mask', FILL)
                      /\ PassesBookCondition(Mask')
                      /\ Deal'[1].id = self'.last_deal_id
                      /\ Deal'[1].id > 0
                      /\ Deal'[1].type \in {TYPE_SELL, TYPE_BUY}
                      /\ Deal'[1].type = IF HasFlag(Mask', SELL) THEN TYPE_SELL
                                         ELSE TYPE_BUY
             /\ ~HasFlag(Mask', FILL)
                   => /\ Entry'.deal_id = 0
                      /\ Entry'.deal_price = 0
                      /\ Entry'.oi_after_deal = 0
                      /\ Deal' = <<>>
                      /\ self'.last_pushed_deal_id = self.last_pushed_deal_id ]_vars

\* after a fill pushed deal 1 at price 7, a record without FILL that passes
\* the book condition exported zeros and pushed nothing
C20_Witness ==
    /\ Returned
    /\ ~HasFlag(Mask, FILL)
    /\ PassesBookCondition(Mask)
    /\ self.last_pushed_deal_id = 1
    /\ self.last_deal_price = 7
    /\ Entry.deal_id = 0
    /\ Deal = <<>>

\* a fill whose deal id went negative pushed nothing
C20_WitnessNegativeId ==
    /\ Returned
    /\ HasFlag(Mask, FILL)
    /\ PassesBookCondition(Mask)
    /\ Entry.deal_id < 0
    /\ Deal = <<>>

----------------------------------------------------------------------------
(* Two streams of one type in a file *)

\* a file of two ORD_LOG streams, "X" and "Y"
TwoStreamsFile ==
    MkFile(<<1, 65>>, Tick0, 2, <<ORD_LOG, 1, 88, ORD_LOG, 1, 89>>, <<>>)

StreamIndexes == {0, 1}

\* a frame header of a two-stream file: 5 ms on, then the stream index
FrameBytes(i) == <<5, i>>

\* an add of 5 at +100 and one at the last price; a cancel of 5 at the last
\* price; fills of 5 at the last price with deal id +1 and +0, deal price +7
\* and open interest +3; a flow start
TwoStreamsRecords ==
    {Record(ORDER_PRICE + AMOUNT, ADD + BUY + END_OF_TRANSACTION, <<228, 0, 5>>),
     Record(ORDER_PRICE + AMOUNT, ADD + SELL, <<0, 5>>),
     Record(ORDER_PRICE + AMOUNT, CANCELED + BUY + END_OF_TRANSACTION, <<0, 5>>),
     Record(ORDER_PRICE + AMOUNT + DEAL_ID + DEAL_PRICE + OI_AFTER_DEAL,
            FILL + SELL + END_OF_TRANSACTION, <<0, 5, 1, 7, 3>>),
     Record(ORDER_PRICE + AMOUNT + DEAL_ID + DEAL_PRICE + OI_AFTER_DEAL,
            FILL + BUY + END_OF_TRANSACTION, <<0, 5, 0, 7, 3>>),
     Record(AMOUNT, FLOW_START, <<0>>)}

\* The file continues with the frame header of a record of stream i and the
\* caller reads it.  fed keeps the stream index of every frame.
ReadFrameHeaderOfStream(i) ==
    /\ calls < MaxCalls
    /\ Len(fed) = calls
    /\ \E st \in {read_frame_header([self EXCEPT !.fileobj = @ \o FrameBytes(i)])} :
           /\ self' = st.obj
           /\ exc' = st.exc
           /\ ret' = [op |-> "read_frame_header", val |-> st.loc]
    /\ fed' = Append(fed, [stream_index |-> i])
    /\ UNCHANGED <<file, log, heap, py3, calls, held, emitted>>

\* The caller reads the ord-log record of the frame whose header it read
\* last.  fed keeps, with the
\* stream index of the frame, the ord-log state the record was decoded
\* against and the one it left.
ReadRecordOfFrame(buf) ==
    /\ Len(fed) = calls + 1
    /\ OrdLogCall(buf)
    /\ fed' = [fed EXCEPT ![Len(fed)] =
                  [stream_index |-> @.stream_index, before |-> OrdLogState,
                   after |-> OrdLogState']]

\* SpecTwoStreams: TwoStreamsFile has been opened and its two stream headers
\* read; it goes on with frames of either stream, header and record read in
\* turn.
InitTwoStreams ==
    /\ file = TwoStreamsFile
    /\ py3 = TRUE
    /\ \E c \in {qsh_init(TwoStreamsFile)} :
         \E h1 \in {read_stream_header(c.obj)} :
           \E h2 \in {read_stream_header(h1.obj)} :
              /\ self = h2.obj
              /\ heap = c.heap
    /\ log = <<<<"open", "none">>, <<"read_stream_header", "none">>,
               <<"read_stream_header", "none">>>>
    /\ exc = "none"
    /\ ret = [op |-> "read_stream_header"]
    /\ calls = 0
    /\ held = {}
    /\ emitted = <<>>
    /\ fed = <<>>

NextTwoStreams ==
    \/ \E i \in StreamIndexes : ReadFrameHeaderOfStream(i)
    \/ \E buf \in TwoStreamsRecords : ReadRecordOfFrame(buf)

SpecTwoStreams == InitTwoStreams /\ [][NextTwoStreams]_vars

\* the step is a read_frame_header call
FrameHeaderStep == Len(fed') = Len(fed) + 1 /\ ret'.op = "read_frame_header"

\* C21: read_frame_header changes only last_frame_milliseconds and the byte
\* position, and the stream index it returns is stored nowhere; so in a file
\* of two streams of one type every record is decoded against the ord-log
\* state (last values, quotes book, last_pushed_deal_id) the record before
\* left, whatever the stream indexes of the two.
C21_StateSharedAcrossStreamIndexes ==
    [][ /\ FrameHeaderStep
          => /\ exc' = "none"
             /\ ret'.val.stream_index = fed'[Len(fed')].stream_index
             /\ DOMAIN self' = DOMAIN self
             /\ \A a \in DOMAIN self \ {"last_frame_milliseconds", "fileobj"} :
                    self'[a] = self[a]
             /\ self'.last_frame_milliseconds = self.last_frame_milliseconds + 5
             /\ self'.fileobj = <<>>
             /\ heap' = heap
        /\ (OrdLogStep /\ Len(fed') > 1)
          => fed'[Len(fed')].before = fed'[Len(fed') - 1].after ]_vars

\* a fill of stream 0 pushed deal 1 at the price an add left; the fill of
\* stream 1 that follows repeats the deal id and is decoded against that
\* state: it pushes nothing
C21_Witness ==
    /\ Returned
    /\ Len(fed) = 3
    /\ fed[2].stream_index = 0
    /\ fed[3].stream_index = 1
    /\ fed[2].after # fed[2].before
    /\ fed[3].before = fed[2].after
    /\ fed[2].before.attrs.last_pushed_deal_id = 0
    /\ fed[3].before.attrs.last_pushed_deal_id = 1
    /\ fed[3].before.attrs.last_order_price = 100
    /\ HasFlag(Mask, FILL)
    /\ Entry.deal_id = 1
    /\ Deal = <<>>

============================================================================
